---- MODULE Spec2Model ----
(***************************************************************************)
(* The fitness / nutrition tool functions of the personal trainer agent    *)
(* (src/agent/nutrition_tools.py, src/agent/fitness_tools.py) as a state    *)
(* machine: one tool call at a time, its arguments in `call`, its envelope  *)
(* in `result`.                                                             *)
(*                                                                          *)
(* Python floats are IEEE-754 binary64.  A float is carried here as         *)
(*     q + k * u,   u = 2^-52,                                              *)
(* q the exact (decimal) value as a rational and k the distance, in units   *)
(* of u, of the binary64 value from q.  Every operation computes the exact  *)
(* result and rounds it to the nearest binary64 value, ties to even, as     *)
(* the hardware does; terms in u^2 are dropped.                             *)
(***************************************************************************)
EXTENDS Integers, Sequences, FiniteSets, TLC

----------------------------------------------------------------------------
(* Rationals [n, d] in lowest terms, d > 0.                                 *)

Abs(x) == IF x < 0 THEN -x ELSE x

RECURSIVE Gcd(_, _)
Gcd(m, n) == IF n = 0 THEN m ELSE Gcd(n, m % n)

Reduced(n, d, g) == [n |-> n \div g, d |-> d \div g]

Rat(n, d) == Reduced(n, d, Gcd(Abs(n), d))

RZero == [n |-> 0, d |-> 1]

RInt(n) == [n |-> n, d |-> 1]

RNeg(x) == [n |-> -x.n, d |-> x.d]

RAddBy(x, y, g) == Rat(x.n * (y.d \div g) + y.n * (x.d \div g), (x.d \div g) * y.d)

RAdd(x, y) == RAddBy(x, y, Gcd(x.d, y.d))

RSub(x, y) == RAdd(x, RNeg(y))

RMulBy(x, y, g1, g2) ==
    [n |-> (x.n \div g1) * (y.n \div g2), d |-> (x.d \div g2) * (y.d \div g1)]

RMul(x, y) == RMulBy(x, y, Gcd(Abs(x.n), y.d), Gcd(Abs(y.n), x.d))

RLess(x, y) == RSub(x, y).n < 0

RFloor(x) == x.n \div x.d

RPow2(e) == IF e >= 0 THEN [n |-> 2 ^ e, d |-> 1] ELSE [n |-> 1, d |-> 2 ^ (-e)]

----------------------------------------------------------------------------
(* binary64: 53 significant bits, round to nearest, ties to even.           *)

RECURSIVE ExpUp(_, _, _)
ExpUp(n, d, e) == IF n < 2 * d THEN e ELSE ExpUp(n, 2 * d, e + 1)

RECURSIVE ExpDown(_, _, _)
ExpDown(n, d, e) == IF n >= d THEN e ELSE ExpDown(2 * n, d, e - 1)

\* The binary exponent E of q # 0: 2^E <= |q| < 2^(E+1).
Exponent(q) ==
    IF Abs(q.n) >= q.d THEN ExpUp(Abs(q.n), q.d, 0) ELSE ExpDown(Abs(q.n), q.d, 0)

\* The exponent of the binade q + k*u lies in: one below that of q when q is a
\* power of two and k pulls toward zero.
Binade(q, k, e) ==
    IF /\ (q.d = 1 /\ Abs(q.n) = 2 ^ Abs(e)) \/ (Abs(q.n) = 1 /\ q.d = 2 ^ Abs(e))
       /\ k.n # 0
       /\ (k.n < 0) = (q.n > 0)
    THEN e - 1 ELSE e

\* r * 2^i modulo m, thirteen doublings at a time.
RECURSIVE Doubled(_, _, _)
Doubled(r, m, i) ==
    IF i >= 13 THEN Doubled((r * 8192) % m, m, i - 13) ELSE (r * 2 ^ i) % m

\* 2^e with the sign of q.
SignedPow2(q, e) == IF q.n > 0 THEN RPow2(e) ELSE RNeg(RPow2(e))

\* x to the nearest integer, fl being its floor; a tie goes to the one that
\* makes lowPart + t even.
Nearest(x, fl, lowPart) ==
    IF 2 * (x.n - fl * x.d) < x.d THEN fl
    ELSE IF 2 * (x.n - fl * x.d) > x.d THEN fl + 1
    ELSE IF (lowPart + fl) % 2 = 0 THEN fl ELSE fl + 1

NearestEven(x, lowPart) == Nearest(x, RFloor(x), lowPart)

\* The binary64 value nearest to the real q + k*u.  With M = |q| * 2^(52-e) the
\* significand of q, r is M modulo 2 in units of 1/q.d: r \div q.d is the last
\* bit of floor(M) and (r % q.d) / q.d the fractional part of M.  The
\* significand chosen is floor(M) + t.
RoundTo(q, e, r, t) ==
    [q |-> q, k |-> RMul(RSub(RInt(t), Rat(r % q.d, q.d)), SignedPow2(q, e))]

RoundAt(q, k, e, r) ==
    RoundTo(q, e, r, NearestEven(RAdd(Rat(r % q.d, q.d), RMul(k, SignedPow2(q, -e))),
                                 r \div q.d))

RoundIn(q, k, e) == RoundAt(q, k, e, Doubled(Abs(q.n) % (2 * q.d), 2 * q.d, 52 - e))

FRound(q, k) ==
    IF q.n = 0 THEN [q |-> q, k |-> k] ELSE RoundIn(q, k, Binade(q, k, Exponent(q)))

FInt(n) == [q |-> RInt(n), k |-> RZero]

\* A decimal literal n/d of the source, as the binary64 value Python parses.
FLit(n, d) == FRound(Rat(n, d), RZero)

FNeg(x) == [q |-> RNeg(x.q), k |-> RNeg(x.k)]

FAdd(x, y) == FRound(RAdd(x.q, y.q), RAdd(x.k, y.k))

FSub(x, y) == FAdd(x, FNeg(y))

FMul(x, y) == FRound(RMul(x.q, y.q), RAdd(RMul(x.k, y.q), RMul(y.k, x.q)))

\* x / n for an integer n > 0.
FDiv(x, n) == FRound(RMul(x.q, [n |-> 1, d |-> n]), RMul(x.k, [n |-> 1, d |-> n]))

FLess(x, y) == RLess(x.q, y.q) \/ (x.q = y.q /\ RLess(x.k, y.k))

\* min(x, y): y when y < x, else x.
FMin(x, y) == IF FLess(y, x) THEN y ELSE x

\* round(x) for a float x, fl being the floor of x.q: the nearest integer, a tie
\* to the even one.
RoundFrom(x, fl) ==
    IF 2 * (x.q.n - fl * x.q.d) < x.q.d THEN fl
    ELSE IF 2 * (x.q.n - fl * x.q.d) > x.q.d THEN fl + 1
    ELSE IF x.k.n > 0 THEN fl + 1
    ELSE IF x.k.n < 0 THEN fl
    ELSE IF fl % 2 = 0 THEN fl ELSE fl + 1

PyRound(x) == RoundFrom(x, RFloor(x.q))

\* round(x, 1) for a float x: the binary64 value of the nearest one-decimal
\* number, a tie to the even digit.
PyRound1(x) ==
    FLit(PyRound([q |-> RMul(x.q, RInt(10)), k |-> RMul(x.k, RInt(10))]), 10)

\* int(x) for a float x: truncation toward zero.
PyInt(x) ==
    IF x.q.n >= 0
    THEN IF x.q.d = 1 /\ x.k.n < 0 /\ x.q.n > 0 THEN x.q.n - 1 ELSE RFloor(x.q)
    ELSE IF x.q.d = 1 THEN (IF x.k.n > 0 THEN x.q.n + 1 ELSE x.q.n) ELSE RFloor(x.q) + 1

----------------------------------------------------------------------------
(* Strings: str.lower(), str.title() and the `in` test on strings, character *)
(* by character.                                                             *)

Uppers == <<"A", "B", "C", "D", "E", "F", "G", "H", "I", "J", "K", "L", "M",
            "N", "O", "P", "Q", "R", "S", "T", "U", "V", "W", "X", "Y", "Z">>

Lowers == <<"a", "b", "c", "d", "e", "f", "g", "h", "i", "j", "k", "l", "m",
            "n", "o", "p", "q", "r", "s", "t", "u", "v", "w", "x", "y", "z">>

IsUpper(c) == \E i \in 1..26 : Uppers[i] = c

IsLower(c) == \E i \in 1..26 : Lowers[i] = c

LowerChar(c) == IF IsUpper(c) THEN Lowers[CHOOSE i \in 1..26 : Uppers[i] = c] ELSE c

UpperChar(c) == IF IsLower(c) THEN Uppers[CHOOSE i \in 1..26 : Lowers[i] = c] ELSE c

RECURSIVE Lower(_)
Lower(s) ==
    IF Len(s) = 0 THEN ""
    ELSE LowerChar(SubSeq(s, 1, 1)) \o Lower(SubSeq(s, 2, Len(s)))

\* str.title(): a letter that follows a non-letter is upper-cased, every other
\* letter lower-cased.
RECURSIVE TitleFrom(_, _)
TitleFrom(s, afterLetter) ==
    IF Len(s) = 0 THEN ""
    ELSE LET c == SubSeq(s, 1, 1)
         IN  (IF afterLetter THEN LowerChar(c) ELSE UpperChar(c))
                 \o TitleFrom(SubSeq(s, 2, Len(s)), IsUpper(c) \/ IsLower(c))

Title(s) == TitleFrom(s, FALSE)

\* needle in hay, for two strings.
Contains(needle, hay) ==
    \E i \in 1..(Len(hay) - Len(needle) + 1) :
        SubSeq(hay, i, i + Len(needle) - 1) = needle

\* Arguments that are not str objects: None, and a list (which is also
\* unhashable: a dict lookup with it raises TypeError).
None == "<None>"

AList == "<list>"

IsStr(v) == v # None /\ v # AList

IsHashable(v) == v # AList

\* The truth value Python gives an argument in `if v:` and `v or default`.
Truthy(v) == v # None /\ v # ""

----------------------------------------------------------------------------
(* The tool envelope.                                                        *)

Success(data) == [status |-> "success", data |-> data]

Failure(message) == [status |-> "error", error_message |-> message]

----------------------------------------------------------------------------
(* calculate_daily_calories                                                  *)

\* weight_kg: a binary64 value, `ulps` units in the last place away from
\* kg2 / 2, or NaN.
WeightValue(weight_kg) ==
    [q |-> Rat(weight_kg.kg2, 2),
     k |-> RMul(RInt(weight_kg.ulps), RPow2(Exponent(Rat(weight_kg.kg2, 2))))]
\* Bmr with the female constant mistyped as 116.
BmrMistyped(weight_kg, height_cm, age, gender) ==
    FAdd(FSub(FAdd(FMul(FInt(10), WeightValue(weight_kg)),
                   FMul(FLit(625, 100), FInt(height_cm))),
              FInt(5 * age)),
         FInt(IF Lower(gender) = "male" THEN 5 ELSE -116))

\* 10 * weight_kg + 6.25 * height_cm - 5 * age, then + 5 or - 161 (the
\* subtraction is the addition of -161, which rounds the same).
Bmr(weight_kg, height_cm, age, gender) ==
    FAdd(FSub(FAdd(FMul(FInt(10), WeightValue(weight_kg)),
                   FMul(FLit(625, 100), FInt(height_cm))),
              FInt(5 * age)),
         FInt(IF Lower(gender) = "male" THEN 5 ELSE -161))
\* ActivityMultiplier with 1.5 for "moderate".
ActivityMultiplierLow(activity_level) ==
    FLit(CASE activity_level = "sedentary"   -> 1200
           [] activity_level = "light"       -> 1375
           [] activity_level = "moderate"    -> 1500
           [] activity_level = "active"      -> 1725
           [] activity_level = "very_active" -> 1900
           [] OTHER                          -> 1550,
         1000)

\* activity_multipliers.get(activity_level, 1.55), the literals in thousandths.
ActivityMultiplier(activity_level) ==
    FLit(CASE activity_level = "sedentary"   -> 1200
           [] activity_level = "light"       -> 1375
           [] activity_level = "moderate"    -> 1550
           [] activity_level = "active"      -> 1725
           [] activity_level = "very_active" -> 1900
           [] OTHER                          -> 1550,
         1000)
\* Tdee from the rounded bmr.
TdeeOfRounded(bmr, activity_level) ==
    FMul(FInt(PyRound(bmr)), ActivityMultiplier(activity_level))

Tdee(bmr, activity_level) == FMul(bmr, ActivityMultiplier(activity_level))
\* TargetCalories with the two adjustments exchanged.
TargetCaloriesExchanged(tdee, goal) ==
    IF goal = "weight_loss" THEN FSub(tdee, FInt(300))
    ELSE IF goal = "muscle_gain" THEN FAdd(tdee, FInt(500))
    ELSE tdee

TargetCalories(tdee, goal) ==
    IF goal = "weight_loss" THEN FSub(tdee, FInt(500))
    ELSE IF goal = "muscle_gain" THEN FAdd(tdee, FInt(300))
    ELSE tdee

\* protein_ratio, carb_ratio and fat_ratio, the literals in hundredths.
ProteinRatio(goal) ==
    FLit(IF goal = "muscle_gain" THEN 30 ELSE IF goal = "weight_loss" THEN 35 ELSE 25, 100)

CarbRatio(goal) ==
    FLit(IF goal = "muscle_gain" THEN 40 ELSE IF goal = "weight_loss" THEN 30 ELSE 45, 100)

FatRatio(goal) ==
    FLit(IF goal = "muscle_gain" THEN 30 ELSE IF goal = "weight_loss" THEN 35 ELSE 30, 100)
\* MacroEntry with the grams taken from the rounded calories.
MacroEntryOfRounded(calories, perGram, ratio) ==
    [calories   |-> PyRound(calories),
     grams      |-> PyRound(FDiv(FInt(PyRound(calories)), perGram)),
     percentage |-> PyRound(FMul(ratio, FInt(100)))]

\* One entry of "macronutrients", from the macro's calories.
MacroEntry(calories, perGram, ratio) ==
    [calories   |-> PyRound(calories),
     grams      |-> PyRound(FDiv(calories, perGram)),
     percentage |-> PyRound(FMul(ratio, FInt(100)))]

Macro(target_calories, ratio, perGram) ==
    MacroEntry(FMul(target_calories, ratio), perGram, ratio)

\* The "data" of the result, from the unrounded bmr, tdee and target_calories.
CalorieReport(bmr, tdee, target_calories, goal, activity_level) ==
    [bmr             |-> PyRound(bmr),
     tdee            |-> PyRound(tdee),
     target_calories |-> PyRound(target_calories),
     macronutrients  |->
        [protein       |-> Macro(target_calories, ProteinRatio(goal), 4),
         carbohydrates |-> Macro(target_calories, CarbRatio(goal), 4),
         fats          |-> Macro(target_calories, FatRatio(goal), 9)],
     goal            |-> goal,
     activity_level  |-> activity_level]

CalorieTarget(bmr, tdee, goal, activity_level) ==
    CalorieReport(bmr, tdee, TargetCalories(tdee, goal), goal, activity_level)

CalorieData(bmr, goal, activity_level) ==
    CalorieTarget(bmr, Tdee(bmr, activity_level), goal, activity_level)
\* calculate_daily_calories without its except clause: the exception leaves
\* the call.
calculate_daily_calories_unguarded(weight_kg, height_cm, age, gender, activity_level, goal) ==
    IF ~IsStr(gender) \/ ~IsHashable(activity_level) \/ weight_kg.nan
    THEN [status |-> "raised"]
    ELSE Success(CalorieData(Bmr(weight_kg, height_cm, age, gender), goal, activity_level))

\* The try block of calculate_daily_calories: gender.lower() of a non-str,
\* the dict lookup of an unhashable activity_level and round() of NaN raise,
\* and the except clause turns each into an error envelope.
calculate_daily_calories(weight_kg, height_cm, age, gender, activity_level, goal) ==
    IF ~IsStr(gender) \/ ~IsHashable(activity_level) \/ weight_kg.nan
    THEN Failure("Calorie calculation failed")
    ELSE Success(CalorieData(Bmr(weight_kg, height_cm, age, gender), goal, activity_level))

----------------------------------------------------------------------------
(* NUTRITION_DATABASE and MEAL_TEMPLATES                                      *)

\* One food of the database; protein, carbs and fat are written in tenths of a
\* gram.
Food(name, calories_per_100g, protein, carbs, fat, prep_time) ==
    [name |-> name, calories_per_100g |-> calories_per_100g,
     protein |-> protein, carbs |-> carbs, fat |-> fat, prep_time |-> prep_time]

NUTRITION_DATABASE ==
    [proteins |->
        [lean_meats |-> <<Food("Chicken Breast", 165, 310, 0, 36, 15),
                          Food("Turkey Breast", 135, 300, 0, 10, 15),
                          Food("Lean Beef", 250, 260, 0, 150, 20),
                          Food("Salmon", 208, 250, 0, 120, 12),
                          Food("Tuna", 132, 280, 0, 10, 5)>>,
         dairy |-> <<Food("Greek Yogurt", 97, 100, 40, 50, 0),
                     Food("Cottage Cheese", 98, 110, 34, 43, 0),
                     Food("Milk (2%)", 50, 34, 50, 20, 0)>>,
         plant_based |-> <<Food("Tofu", 76, 80, 19, 48, 10),
                           Food("Lentils", 116, 90, 200, 4, 25),
                           Food("Chickpeas", 164, 89, 270, 26, 20),
                           Food("Quinoa", 120, 44, 220, 19, 15)>>],
     carbohydrates |->
        [complex |-> <<Food("Brown Rice", 123, 26, 250, 9, 25),
                       Food("Sweet Potato", 86, 16, 200, 1, 25),
                       Food("Oats", 68, 24, 120, 14, 5),
                       Food("Whole Wheat Bread", 247, 130, 410, 42, 0)>>,
         fruits |-> <<Food("Banana", 89, 11, 230, 3, 0),
                      Food("Apple", 52, 3, 140, 2, 0),
                      Food("Berries (mixed)", 57, 7, 140, 3, 0)>>],
     fats |->
        [healthy |-> <<Food("Avocado", 160, 20, 90, 150, 2),
                       Food("Nuts (mixed)", 607, 200, 220, 540, 0),
                       Food("Olive Oil", 884, 0, 0, 1000, 0),
                       Food("Seeds (chia/flax)", 486, 170, 420, 310, 0)>>],
     vegetables |-> <<Food("Broccoli", 34, 28, 70, 4, 8),
                      Food("Spinach", 23, 29, 36, 4, 3),
                      Food("Bell Peppers", 31, 10, 70, 3, 5),
                      Food("Carrots", 41, 9, 100, 2, 5),
                      Food("Cucumber", 16, 7, 40, 1, 2)>>]

MEAL_TEMPLATES ==
    [weight_loss |->
        [breakfast |-> <<"protein", "complex_carbs", "healthy_fats">>,
         lunch     |-> <<"lean_protein", "vegetables", "complex_carbs">>,
         dinner    |-> <<"lean_protein", "vegetables", "minimal_carbs">>,
         snacks    |-> <<"protein", "fruits">>],
     muscle_gain |->
        [breakfast |-> <<"protein", "complex_carbs", "healthy_fats">>,
         lunch     |-> <<"protein", "complex_carbs", "vegetables">>,
         dinner    |-> <<"protein", "complex_carbs", "vegetables">>,
         snacks    |-> <<"protein", "nuts", "fruits">>],
     maintenance |->
        [breakfast |-> <<"protein", "complex_carbs">>,
         lunch     |-> <<"balanced_protein", "vegetables", "complex_carbs">>,
         dinner    |-> <<"protein", "vegetables", "moderate_carbs">>,
         snacks    |-> <<"fruits", "nuts">>]]

Range(list) == {list[i] : i \in 1..Len(list)}

\* x in list, for a list of strings.
InList(x, list) == \E i \in 1..Len(list) : list[i] = x
\* _get_foods_by_type without the vegan filter.
_get_foods_unfiltered(food_type, restrictions) ==
    LET all_foods ==
            IF food_type = "proteins"
            THEN NUTRITION_DATABASE.proteins.lean_meats
                 \o (IF ~InList("vegetarian", restrictions) /\ ~InList("vegan", restrictions)
                     THEN NUTRITION_DATABASE.proteins.dairy ELSE <<>>)
                 \o (IF InList("vegan", restrictions) \/ InList("vegetarian", restrictions)
                     THEN NUTRITION_DATABASE.proteins.plant_based ELSE <<>>)
            ELSE IF food_type = "carbohydrates"
            THEN NUTRITION_DATABASE.carbohydrates.complex
                 \o NUTRITION_DATABASE.carbohydrates.fruits
            ELSE IF food_type = "fats"
            THEN NUTRITION_DATABASE.fats.healthy
            ELSE <<>>
        restricted ==
            IF InList("vegetarian", restrictions)
            THEN SelectSeq(all_foods, LAMBDA f : f.name \notin
                     {"Chicken Breast", "Turkey Breast", "Lean Beef", "Salmon", "Tuna"})
            ELSE all_foods
    IN  IF InList("gluten_free", restrictions)
        THEN SelectSeq(restricted, LAMBDA f : ~Contains("Wheat", f.name))
        ELSE restricted

_get_foods_by_type(food_type, restrictions) ==
    LET all_foods ==
            IF food_type = "proteins"
            THEN NUTRITION_DATABASE.proteins.lean_meats
                 \o (IF ~InList("vegetarian", restrictions) /\ ~InList("vegan", restrictions)
                     THEN NUTRITION_DATABASE.proteins.dairy ELSE <<>>)
                 \o (IF InList("vegan", restrictions) \/ InList("vegetarian", restrictions)
                     THEN NUTRITION_DATABASE.proteins.plant_based ELSE <<>>)
            ELSE IF food_type = "carbohydrates"
            THEN NUTRITION_DATABASE.carbohydrates.complex
                 \o NUTRITION_DATABASE.carbohydrates.fruits
            ELSE IF food_type = "fats"
            THEN NUTRITION_DATABASE.fats.healthy
            ELSE <<>>
        restricted ==
            IF InList("vegan", restrictions)
            THEN SelectSeq(all_foods, LAMBDA f : f.name \notin
                     {"Chicken Breast", "Turkey Breast", "Lean Beef", "Salmon", "Tuna",
                      "Greek Yogurt", "Cottage Cheese", "Milk (2%)"})
            ELSE IF InList("vegetarian", restrictions)
            THEN SelectSeq(all_foods, LAMBDA f : f.name \notin
                     {"Chicken Breast", "Turkey Breast", "Lean Beef", "Salmon", "Tuna"})
            ELSE all_foods
    IN  IF InList("gluten_free", restrictions)
        THEN SelectSeq(restricted, LAMBDA f : ~Contains("Wheat", f.name))
        ELSE restricted

----------------------------------------------------------------------------
(* _create_single_meal                                                       *)

\* The component list with the meal type "snack" looked up as "snacks".
MealComponentsOfSnacks(goal, meal_type) ==
    LET template == IF goal \in DOMAIN MEAL_TEMPLATES
                    THEN MEAL_TEMPLATES[goal] ELSE MEAL_TEMPLATES["maintenance"]
        key      == IF meal_type = "snack" THEN "snacks" ELSE meal_type
    IN  IF key \in DOMAIN template
        THEN template[key] ELSE <<"protein", "carbs", "vegetables">>

\* The component list of a meal: the goal's template, or the maintenance one,
\* and in it the meal type's list, or the default list.
MealComponents(goal, meal_type) ==
    LET template == IF goal \in DOMAIN MEAL_TEMPLATES
                    THEN MEAL_TEMPLATES[goal] ELSE MEAL_TEMPLATES["maintenance"]
    IN  IF meal_type \in DOMAIN template
        THEN template[meal_type] ELSE <<"protein", "carbs", "vegetables">>

\* A component tag one of the branches of the if / elif chain handles.
Recognized(component) ==
    component \in {"protein", "lean_protein", "balanced_protein", "complex_carbs", "carbs",
                   "moderate_carbs", "minimal_carbs", "healthy_fats", "fats", "vegetables",
                   "fruits", "nuts"}

\* The shares without the test for "moderate" in the tag.
ComponentPercentUnmoderated(component) ==
    IF component \in {"protein", "lean_protein", "balanced_protein"} THEN 30
    ELSE IF component \in {"complex_carbs", "carbs", "moderate_carbs", "minimal_carbs"}
    THEN IF Contains("minimal", component) THEN 15 ELSE 40
    ELSE IF component \in {"healthy_fats", "fats"} THEN 25
    ELSE IF component = "vegetables" THEN 20
    ELSE 15

\* The share of the remaining calories a component is allocated, the literals
\* in hundredths.
ComponentPercent(component) ==
    IF component \in {"protein", "lean_protein", "balanced_protein"} THEN 30
    ELSE IF component \in {"complex_carbs", "carbs", "moderate_carbs", "minimal_carbs"}
    THEN IF Contains("minimal", component) THEN 15
         ELSE IF Contains("moderate", component) THEN 25
         ELSE 40
    ELSE IF component \in {"healthy_fats", "fats"} THEN 25
    ELSE IF component = "vegetables" THEN 20
    ELSE 15

\* component_calories = min(remaining_calories * share, remaining_calories)
ComponentCalories(remaining_calories, component) ==
    FMin(FMul(remaining_calories, FLit(ComponentPercent(component), 100)),
         remaining_calories)

\* The foods a component is chosen from.
ComponentFoods(component, restrictions) ==
    IF component \in {"protein", "lean_protein", "balanced_protein"}
    THEN _get_foods_by_type("proteins", restrictions)
    ELSE IF component \in {"complex_carbs", "carbs", "moderate_carbs", "minimal_carbs"}
    THEN _get_foods_by_type("carbohydrates", restrictions)
    ELSE IF component \in {"healthy_fats", "fats"}
    THEN _get_foods_by_type("fats", restrictions)
    ELSE IF component = "vegetables" THEN NUTRITION_DATABASE.vegetables
    ELSE IF component = "fruits" THEN NUTRITION_DATABASE.carbohydrates.fruits
    ELSE SelectSeq(NUTRITION_DATABASE.fats.healthy, LAMBDA item : Contains("nuts", Lower(item.name)))

\* The locals of a _create_single_meal call, with the slot's meal_type and
\* meal_calories: `done` components of meal_components have been handled, and
\* `food` is the name random.choice returned last ("" before the first).  Of
\* the foods list the calories are kept.
EnterSingleMeal(meal_type, meal_calories, goal) ==
    [meal_type          |-> meal_type,
     target_calories    |-> meal_calories,
     meal_components    |-> MealComponents(goal, Lower(meal_type)),
     done               |-> 0,
     remaining_calories |-> FInt(meal_calories),
     total_calories     |-> FInt(0),
     foods              |-> <<>>,
     food               |-> ""]

\* The loop goes on: components are left and remaining_calories > 0.
InLoop(m) == m.done < Len(m.meal_components) /\ FLess(FInt(0), m.remaining_calories)

\* A pass that adds no food: an unrecognized component, or an empty candidate
\* list; remaining_calories is left alone.
Skipped(m) == [m EXCEPT !.done = @ + 1]
\* Added with remaining_calories increased instead of decreased.
AddedGrowing(m, component_calories, name) ==
    [m EXCEPT !.done               = @ + 1,
              !.foods              = Append(@, [calories |-> PyRound(component_calories)]),
              !.total_calories     = FAdd(@, component_calories),
              !.remaining_calories = FAdd(@, component_calories),
              !.food               = name]

\* A pass that adds the food named `name` with component_calories.
Added(m, component_calories, name) ==
    [m EXCEPT !.done               = @ + 1,
              !.foods              = Append(@, [calories |-> PyRound(component_calories)]),
              !.total_calories     = FAdd(@, component_calories),
              !.remaining_calories = FSub(@, component_calories),
              !.food               = name]

\* A pass in which a component without food still spends its allocation.
SingleMealPassSpending(m, component, food_items, food) ==
    IF ~Recognized(component) THEN Skipped(m)
    ELSE IF food_items = <<>>
    THEN [Skipped(m) EXCEPT !.remaining_calories =
             FSub(@, ComponentCalories(m.remaining_calories, component))]
    ELSE Added(m, ComponentCalories(m.remaining_calories, component), food.name)

\* One pass of the loop over the components, for `component` with the
\* candidate list food_items, of which random.choice returns `food`: the
\* `else: continue` and the `if food_items:` that guards the pass's updates.
SingleMealPass(m, component, food_items, food) ==
    IF ~Recognized(component) \/ food_items = <<>> THEN Skipped(m)
    ELSE Added(m, ComponentCalories(m.remaining_calories, component), food.name)

\* The meal the call returns, as create_meal_plan appends it to daily_meals.
DailyMeal(m) ==
    [meal_type       |-> m.meal_type,
     target_calories |-> m.target_calories,
     foods           |-> m.foods,
     total_calories  |-> PyRound(m.total_calories)]

----------------------------------------------------------------------------
(* create_meal_plan                                                          *)
\* MealDistribution with the snack slot of the 4-meal row merged into dinner.
MealDistributionMerged(meals_per_day) ==
    IF meals_per_day = 3 THEN <<25, 45, 30>>
    ELSE IF meals_per_day = 4 THEN <<25, 35, 40>>
    ELSE IF meals_per_day = 5 THEN <<20, 10, 35, 10, 25>>
    ELSE <<20, 10, 30, 10, 20, 10>>

\* meal_distribution, the literals in hundredths.
MealDistribution(meals_per_day) ==
    IF meals_per_day = 3 THEN <<25, 45, 30>>
    ELSE IF meals_per_day = 4 THEN <<25, 35, 25, 15>>
    ELSE IF meals_per_day = 5 THEN <<20, 10, 35, 10, 25>>
    ELSE <<20, 10, 30, 10, 20, 10>>

\* meal_calories = int(target_calories * calorie_percentage); meal_index counts
\* from 0, as enumerate does.
MealCalories(target_calories, meal_distribution, meal_index) ==
    PyInt(FMul(FInt(target_calories), FLit(meal_distribution[meal_index + 1], 100)))
\* MealType with the last slot looked for one index too far.
MealTypeOffByOne(goal, meal_distribution, meal_index) ==
    IF meal_index = 0 THEN "Breakfast"
    ELSE IF meal_index = Len(meal_distribution) THEN "Dinner"
    ELSE IF goal \in DOMAIN MEAL_TEMPLATES
            /\ "lunch" \in DOMAIN MEAL_TEMPLATES[goal]
            /\ meal_index = 1
    THEN "Lunch"
    ELSE "Snack"

MealType(goal, meal_distribution, meal_index) ==
    IF meal_index = 0 THEN "Breakfast"
    ELSE IF meal_index = Len(meal_distribution) - 1 THEN "Dinner"
    ELSE IF goal \in DOMAIN MEAL_TEMPLATES
            /\ "lunch" \in DOMAIN MEAL_TEMPLATES[goal]
            /\ meal_index = 1
    THEN "Lunch"
    ELSE "Snack"

RECURSIVE SumTotalCalories(_, _)
SumTotalCalories(meals, n) ==
    IF n = 0 THEN 0 ELSE SumTotalCalories(meals, n - 1) + meals[n].total_calories

RECURSIVE SumTargetCalories(_, _)
SumTargetCalories(meals, n) ==
    IF n = 0 THEN 0 ELSE SumTargetCalories(meals, n - 1) + meals[n].target_calories

\* Daily totals corrected to the calories the meals were to have.
_calculate_daily_totals_corrected(meals) ==
    [calories |-> SumTargetCalories(meals, Len(meals))]

_calculate_daily_totals(meals) == [calories |-> SumTotalCalories(meals, Len(meals))]

MealPlanData(meal_plan, target_calories, goal, dietary_restrictions, days) ==
    [meal_plan            |-> meal_plan,
     target_calories      |-> target_calories,
     goal                 |-> goal,
     dietary_restrictions |-> dietary_restrictions,
     days                 |-> days]

----------------------------------------------------------------------------
(* get_nutrition_recommendations                                             *)

Recommendations ==
    [weight_loss |->
        [key_principles |->
            <<"Create a moderate caloric deficit (300-500 calories below maintenance)",
              "Prioritize protein to preserve muscle mass during weight loss",
              "Include plenty of fiber-rich vegetables to feel full",
              "Stay hydrated - drink water before meals",
              "Practice portion control and mindful eating">>,
         meal_timing |-> "Eat 3-4 meals per day with focus on protein at each meal",
         supplements |-> <<"Multivitamin", "Protein powder if needed", "Omega-3">>,
         avoid       |-> <<"Highly processed foods", "Sugary drinks", "Large portions">>],
     muscle_gain |->
        [key_principles |->
            <<"Maintain a moderate caloric surplus (200-400 calories above maintenance)",
              "Consume 1.6-2.2g protein per kg body weight",
              "Include complex carbohydrates around workouts",
              "Don't neglect healthy fats for hormone production",
              "Eat frequently throughout the day">>,
         meal_timing |-> "5-6 meals per day, protein every 3-4 hours",
         supplements |-> <<"Whey protein", "Creatine", "Multivitamin">>,
         avoid       |-> <<"Skipping meals", "Too much cardio", "Dirty bulking">>],
     maintenance |->
        [key_principles |->
            <<"Balance caloric intake with expenditure",
              "Focus on nutrient-dense whole foods",
              "Include variety in your diet",
              "Practice the 80/20 rule - healthy 80% of the time",
              "Listen to your body's hunger and fullness cues">>,
         meal_timing |-> "3-4 balanced meals per day",
         supplements |-> <<"Multivitamin", "Vitamin D", "Omega-3">>,
         avoid       |-> <<"Extreme restrictions", "All-or-nothing mentality">>]]

\* The assignment to the local `recommendations`: the table, written out in
\* the body of the function, whatever the name was bound to by an earlier call.
BuildRecommendationsOnce(previous) ==
    IF previous = <<>> THEN Recommendations ELSE previous

BuildRecommendations(previous) == Recommendations

\* The entry of the table the call answers with.
BaseRecsKey(table, goal) ==
    IF goal \in DOMAIN table THEN goal ELSE "maintenance"

\* The two principles appended in place to the entry, for an active caller.
WithActivity(table, goal, activity_level) ==
    IF activity_level \in {"active", "very_active"}
    THEN [table EXCEPT ![BaseRecsKey(table, goal)].key_principles =
             @ \o <<"Increase carbohydrate intake to fuel workouts",
                    "Focus on post-workout recovery nutrition">>]
    ELSE table

\* The table as the call leaves it: the .get raises on an unhashable goal.
RecommendationsAfter(table, goal, activity_level) ==
    IF ~IsHashable(goal) THEN table ELSE WithActivity(table, goal, activity_level)

get_nutrition_recommendations(table, goal, activity_level) ==
    IF ~IsHashable(goal) THEN Failure("Failed to get recommendations")
    ELSE Success([goal |-> goal, activity_level |-> activity_level,
                  recommendations |->
                      WithActivity(table, goal, activity_level)[BaseRecsKey(table, goal)]])

----------------------------------------------------------------------------
(* analyze_food_item                                                         *)

\* The lists the loop over NUTRITION_DATABASE.values() scans, category by
\* category: a dict category gives its sub-category lists, a list category
\* itself.
DatabaseCategories ==
    <<<<NUTRITION_DATABASE.proteins.lean_meats, NUTRITION_DATABASE.proteins.dairy,
        NUTRITION_DATABASE.proteins.plant_based>>,
      <<NUTRITION_DATABASE.carbohydrates.complex, NUTRITION_DATABASE.carbohydrates.fruits>>,
      <<NUTRITION_DATABASE.fats.healthy>>,
      <<NUTRITION_DATABASE.vegetables>>>>

\* found_food is a one-element list, or empty for None.
\* The scan of one list: its first food whose name contains food_name becomes
\* found_food and ends this list's loop.
RECURSIVE ScanFoods(_, _, _, _)
ScanFoods(foods, i, food_name, found_food) ==
    IF i > Len(foods) THEN found_food
    ELSE IF Contains(Lower(food_name), Lower(foods[i].name)) THEN <<foods[i]>>
    ELSE ScanFoods(foods, i + 1, food_name, found_food)

\* The scan of one category: every list of it is scanned.
RECURSIVE ScanCategory(_, _, _, _)
ScanCategory(lists, j, food_name, found_food) ==
    IF j > Len(lists) THEN found_food
    ELSE ScanCategory(lists, j + 1, food_name, ScanFoods(lists[j], 1, food_name, found_food))

\* The scan of the database: it ends after the first category that found a food.
RECURSIVE ScanDatabase(_, _)
ScanDatabase(c, food_name) ==
    IF c > Len(DatabaseCategories) THEN <<>>
    ELSE LET found_food == ScanCategory(DatabaseCategories[c], 1, food_name, <<>>)
         IN  IF found_food # <<>> THEN found_food ELSE ScanDatabase(c + 1, food_name)

\* round(value * multiplier, 1) for a value of the database, in tenths.
Scaled(tenths, multiplier) == PyRound1(FMul(FLit(tenths, 10), multiplier))

\* The "data" of the result for the food found.
FoodAnalysis(food, portion_size, multiplier) ==
    [food_name          |-> food.name,
     portion_size_grams |-> portion_size,
     nutrition          |->
        [calories      |-> Scaled(10 * food.calories_per_100g, multiplier),
         protein       |-> Scaled(food.protein, multiplier),
         carbohydrates |-> Scaled(food.carbs, multiplier),
         fat           |-> Scaled(food.fat, multiplier)],
     prep_time_minutes  |-> food.prep_time]

\* portion_size is written in tenths of a gram.
analyze_food_item(food_name, portion_size) ==
    IF ~IsStr(food_name) THEN Failure("Food analysis failed")
    ELSE
    LET found_food == ScanDatabase(1, food_name)
    IN  IF found_food = <<>> THEN Failure("Food '" \o food_name \o "' not found in database")
        ELSE
        Success(FoodAnalysis(found_food[1], FLit(portion_size, 10),
                             FDiv(FLit(portion_size, 10), 100)))

----------------------------------------------------------------------------
(* The exercise catalog: data/exercises.json                                 *)

Exercise(name, category, level, equipment, primaryMuscles, secondaryMuscles) ==
    [name |-> name, category |-> category, level |-> level, equipment |-> equipment,
     primaryMuscles |-> primaryMuscles, secondaryMuscles |-> secondaryMuscles]

\* load_exercises_data: the parsed file, or [] when it cannot be opened or parsed.
load_exercises_data(file) == IF file.parses THEN file.content ELSE <<>>

\* A list comprehension over `list`: it raises if the test raises on an element,
\* and otherwise keeps the elements that pass.
Raised == [raised |-> TRUE, list |-> <<>>]

Kept(list) == [raised |-> FALSE, list |-> list]

\* The first n elements of `list` whose test, keeps[i], passes.
RECURSIVE KeptOf(_, _, _)
KeptOf(list, keeps, n) ==
    IF n = 0 THEN <<>>
    ELSE KeptOf(list, keeps, n - 1) \o (IF keeps[n] THEN <<list[n]>> ELSE <<>>)

\* raises[i] and keeps[i] tell what the test does on list[i].
Comprehension(list, raises, keeps) ==
    IF \E i \in 1..Len(list) : raises[i] THEN Raised
    ELSE Kept(KeptOf(list, keeps, Len(list)))

\* [mg.lower() for mg in muscles]
LowerAll(muscles) == [i \in 1..Len(muscles) |-> Lower(muscles[i])]

\* any(mg.lower() in muscle_groups_lower for mg in muscles): "raise" when a
\* muscle that is not a str is reached before a match.
RECURSIVE AnyMuscle(_, _, _)
AnyMuscle(muscles, i, muscle_groups_lower) ==
    IF i > Len(muscles) THEN "no"
    ELSE IF ~IsStr(muscles[i]) THEN "raise"
    ELSE IF InList(Lower(muscles[i]), muscle_groups_lower) THEN "yes"
    ELSE AnyMuscle(muscles, i + 1, muscle_groups_lower)

\* The category, level and equipment filters shared by search_exercises and
\* create_workout_plan.
ByCategory(filtered, category) ==
    Comprehension(filtered,
        [i \in 1..Len(filtered) |-> ~IsStr(filtered[i].category) \/ ~IsStr(category)],
        [i \in 1..Len(filtered) |-> Lower(filtered[i].category) = Lower(category)])

ByLevel(filtered, level) ==
    Comprehension(filtered,
        [i \in 1..Len(filtered) |-> ~IsStr(filtered[i].level) \/ ~IsStr(level)],
        [i \in 1..Len(filtered) |-> Lower(filtered[i].level) = Lower(level)])

ByEquipment(filtered, equipment) ==
    Comprehension(filtered,
        [i \in 1..Len(filtered) |-> ~IsStr(equipment) \/ ~IsStr(filtered[i].equipment)],
        [i \in 1..Len(filtered) |->
            Contains(Lower(equipment), Lower(filtered[i].equipment))])

\* The muscle filter; withSecondary tells whether the secondary muscles count.
ByMuscles(filtered, muscle_groups, withSecondary) ==
    IF \E i \in 1..Len(muscle_groups) : ~IsStr(muscle_groups[i]) THEN Raised
    ELSE Comprehension(filtered,
             [i \in 1..Len(filtered) |->
                 AnyMuscle(filtered[i].primaryMuscles
                               \o (IF withSecondary THEN filtered[i].secondaryMuscles ELSE <<>>),
                           1, LowerAll(muscle_groups)) = "raise"],
             [i \in 1..Len(filtered) |->
                 AnyMuscle(filtered[i].primaryMuscles
                               \o (IF withSecondary THEN filtered[i].secondaryMuscles ELSE <<>>),
                           1, LowerAll(muscle_groups)) = "yes"])

\* Slice with the element at index `limit` included.
SliceInclusive(list, limit) ==
    IF limit >= 0
    THEN SubSeq(list, 1, IF limit + 1 < Len(list) THEN limit + 1 ELSE Len(list))
    ELSE SubSeq(list, 1, IF Len(list) + limit > 0 THEN Len(list) + limit ELSE 0)

\* list[:limit]
Slice(list, limit) ==
    IF limit >= 0
    THEN SubSeq(list, 1, IF limit < Len(list) THEN limit ELSE Len(list))
    ELSE SubSeq(list, 1, IF Len(list) + limit > 0 THEN Len(list) + limit ELSE 0)

----------------------------------------------------------------------------
(* search_exercises                                                          *)

\* The search without its check that the catalog was loaded.
search_exercises_unchecked(exercises, category, level, equipment, muscle_groups, limit) ==
    LET c == IF Truthy(category) THEN ByCategory(exercises, category) ELSE Kept(exercises)
        l == IF c.raised \/ ~Truthy(level) THEN c ELSE ByLevel(c.list, level)
        e == IF l.raised \/ ~Truthy(equipment) THEN l ELSE ByEquipment(l.list, equipment)
        m == IF e.raised \/ muscle_groups = <<>> THEN e
             ELSE ByMuscles(e.list, muscle_groups, TRUE)
        filtered == Slice(m.list, limit)
    IN  IF m.raised THEN Failure("Search failed")
        ELSE Success([exercises       |-> filtered,
                      total_found     |-> Len(filtered),
                      search_criteria |-> [category |-> category, level |-> level,
                                           equipment |-> equipment,
                                           muscle_groups |-> muscle_groups]])

search_exercises(exercises, category, level, equipment, muscle_groups, limit) ==
    IF exercises = <<>> THEN Failure("Could not load exercises data")
    ELSE
    LET c == IF Truthy(category) THEN ByCategory(exercises, category) ELSE Kept(exercises)
        l == IF c.raised \/ ~Truthy(level) THEN c ELSE ByLevel(c.list, level)
        e == IF l.raised \/ ~Truthy(equipment) THEN l ELSE ByEquipment(l.list, equipment)
        m == IF e.raised \/ muscle_groups = <<>> THEN e
             ELSE ByMuscles(e.list, muscle_groups, TRUE)
        filtered == Slice(m.list, limit)
    IN  IF m.raised THEN Failure("Search failed")
        ELSE Success([exercises       |-> filtered,
                      total_found     |-> Len(filtered),
                      search_criteria |-> [category |-> category, level |-> level,
                                           equipment |-> equipment,
                                           muscle_groups |-> muscle_groups]])

----------------------------------------------------------------------------
(* get_exercise_categories and get_muscle_groups                             *)

\* counts[key] = counts.get(key, 0) + 1 on a dict kept in insertion order.
CountOne(counts, key) ==
    IF \E i \in 1..Len(counts) : counts[i].name = key
    THEN [i \in 1..Len(counts) |->
             IF counts[i].name = key
             THEN [name |-> key, count |-> counts[i].count + 1] ELSE counts[i]]
    ELSE Append(counts, [name |-> key, count |-> 1])

RECURSIVE CountAll(_, _, _)
CountAll(keys, i, counts) ==
    IF i > Len(keys) THEN counts ELSE CountAll(keys, i + 1, CountOne(counts, keys[i]))

RECURSIVE Flatten(_)
Flatten(lists) == IF lists = <<>> THEN <<>> ELSE Head(lists) \o Flatten(Tail(lists))

get_exercise_categories(exercises) ==
    IF exercises = <<>> THEN Failure("Could not load exercises data")
    ELSE IF \E i \in 1..Len(exercises) : ~IsHashable(exercises[i].category)
    THEN Failure("Failed to get categories")
    ELSE
    LET categories == CountAll([i \in 1..Len(exercises) |-> exercises[i].category], 1, <<>>)
    IN  Success([categories |-> categories, total_categories |-> Len(categories)])

\* sorted(..., key=count, reverse=True): a stable sort, larger counts first.
RECURSIVE SortedByCount(_)
SortedByCount(counts) ==
    IF counts = <<>> THEN <<>>
    ELSE LET first == Head(counts)
             rest  == SortedByCount(Tail(counts))
             ahead == SelectSeq(rest, LAMBDA c : c.count > first.count)
             after == SelectSeq(rest, LAMBDA c : c.count <= first.count)
         IN  ahead \o <<first>> \o after

get_muscle_groups(exercises) ==
    LET muscles == Flatten([i \in 1..Len(exercises) |->
                       exercises[i].primaryMuscles \o exercises[i].secondaryMuscles])
    IN  IF exercises = <<>> THEN Failure("Could not load exercises data")
        ELSE IF \E i \in 1..Len(muscles) : ~IsHashable(muscles[i])
        THEN Failure("Failed to get muscle groups")
        ELSE
        LET muscle_counts == CountAll(muscles, 1, <<>>)
            sorted_muscles == SortedByCount(muscle_counts)
        IN  Success([muscle_groups |->
                        [i \in 1..Len(sorted_muscles) |->
                            [name |-> sorted_muscles[i].name,
                             exercise_count |-> sorted_muscles[i].count]],
                     total_muscle_groups |-> Len(muscle_counts)])

----------------------------------------------------------------------------
(* create_workout_plan                                                       *)

\* The lookup without its branch for stretching.
_calculate_sets_reps_unstretched(exercise, fitness_level) ==
    LET category == exercise.category
    IN  IF category = "cardio"
        THEN IF fitness_level = "beginner" THEN [sets |-> 3, reps |-> "30 seconds"]
             ELSE IF fitness_level = "intermediate" THEN [sets |-> 4, reps |-> "45 seconds"]
             ELSE [sets |-> 5, reps |-> "60 seconds"]
        ELSE IF category = "strength"
        THEN IF fitness_level = "beginner" THEN [sets |-> 3, reps |-> "8-10 reps"]
             ELSE IF fitness_level = "intermediate" THEN [sets |-> 3, reps |-> "10-12 reps"]
             ELSE [sets |-> 4, reps |-> "12-15 reps"]
        ELSE IF fitness_level = "beginner" THEN [sets |-> 2, reps |-> "5-8 reps"]
             ELSE IF fitness_level = "intermediate" THEN [sets |-> 3, reps |-> "8-10 reps"]
             ELSE [sets |-> 4, reps |-> "10-12 reps"]

_calculate_sets_reps(exercise, fitness_level) ==
    LET category == exercise.category
    IN  IF category = "cardio"
        THEN IF fitness_level = "beginner" THEN [sets |-> 3, reps |-> "30 seconds"]
             ELSE IF fitness_level = "intermediate" THEN [sets |-> 4, reps |-> "45 seconds"]
             ELSE [sets |-> 5, reps |-> "60 seconds"]
        ELSE IF category = "stretching" THEN [sets |-> 1, reps |-> "30 seconds hold"]
        ELSE IF category = "strength"
        THEN IF fitness_level = "beginner" THEN [sets |-> 3, reps |-> "8-10 reps"]
             ELSE IF fitness_level = "intermediate" THEN [sets |-> 3, reps |-> "10-12 reps"]
             ELSE [sets |-> 4, reps |-> "12-15 reps"]
        ELSE IF fitness_level = "beginner" THEN [sets |-> 2, reps |-> "5-8 reps"]
             ELSE IF fitness_level = "intermediate" THEN [sets |-> 3, reps |-> "8-10 reps"]
             ELSE [sets |-> 4, reps |-> "10-12 reps"]

_estimate_calories(duration_minutes, workout_type, fitness_level) ==
    LET base_rate ==
            CASE workout_type = "cardio"                -> 8
              [] workout_type = "strength"              -> 6
              [] workout_type = "stretching"            -> 3
              [] workout_type = "plyometrics"           -> 10
              [] workout_type = "powerlifting"          -> 7
              [] workout_type = "olympic weightlifting" -> 7
              [] workout_type = "strongman"             -> 8
              [] OTHER                                  -> 6
        level_multiplier ==
            CASE fitness_level = "beginner"     -> FLit(8, 10)
              [] fitness_level = "intermediate" -> FLit(10, 10)
              [] fitness_level = "expert"       -> FLit(12, 10)
              [] OTHER                          -> FLit(10, 10)
    IN  PyInt(FMul(FInt(duration_minutes * base_rate), level_multiplier))

\* The candidate filters without the one on level.
WorkoutCandidatesAnyLevel(exercises, fitness_level, target_muscles, workout_type, equipment) ==
    LET l == Kept(exercises)
        c == IF l.raised \/ workout_type = "mixed" THEN l ELSE ByCategory(l.list, workout_type)
        e == IF c.raised \/ ~Truthy(equipment) THEN c ELSE ByEquipment(c.list, equipment)
    IN  IF e.raised \/ target_muscles = <<>> THEN e
        ELSE ByMuscles(e.list, target_muscles, FALSE)

\* The candidates left by the filters of create_workout_plan.
WorkoutCandidates(exercises, fitness_level, target_muscles, workout_type, equipment) ==
    LET l == ByLevel(exercises, fitness_level)
        c == IF l.raised \/ workout_type = "mixed" THEN l ELSE ByCategory(l.list, workout_type)
        e == IF c.raised \/ ~Truthy(equipment) THEN c ELSE ByEquipment(c.list, equipment)
    IN  IF e.raised \/ target_muscles = <<>> THEN e
        ELSE ByMuscles(e.list, target_muscles, FALSE)

\* The target count without its floor of 3.
TargetExerciseCountUnfloored(duration_minutes) ==
    LET byTime == duration_minutes \div 3
    IN  IF byTime < 10 THEN byTime ELSE 10

TargetExerciseCount(duration_minutes) ==
    LET byTime == duration_minutes \div 3
        capped == IF byTime < 10 THEN byTime ELSE 10
    IN  IF capped > 3 THEN capped ELSE 3

\* A removal of the first element, whichever was asked for.
RemoveHead(list, x) == Tail(list)

\* list.remove(x): the list without its first element equal to x.
RECURSIVE Remove(_, _)
Remove(list, x) ==
    IF list = <<>> THEN <<>>
    ELSE IF Head(list) = x THEN Tail(list)
    ELSE <<Head(list)>> \o Remove(Tail(list), x)

\* The selection loop choosing from the whole remaining pool in every round.
RECURSIVE SelectionsAnyOrder(_, _, _)
SelectionsAnyOrder(filtered, used_primary_muscles, rounds) ==
    IF rounds = 0 \/ filtered = <<>> THEN {<<>>}
    ELSE UNION {{<<filtered[i]>> \o rest :
                    rest \in SelectionsAnyOrder(Remove(filtered, filtered[i]), {},
                                                rounds - 1)} :
                i \in 1..Len(filtered)}

\* The selection loop, `rounds` iterations to go: every list of exercises the
\* random choices can select.
RECURSIVE Selections(_, _, _)
Selections(filtered, used_primary_muscles, rounds) ==
    IF rounds = 0 THEN {<<>>}
    ELSE
    LET disjoint  == SelectSeq(filtered, LAMBDA ex :
                         Range(ex.primaryMuscles) \cap used_primary_muscles = {})
        available == IF disjoint = <<>> THEN filtered ELSE disjoint
        used      == IF disjoint = <<>> THEN {} ELSE used_primary_muscles
    IN  IF available = <<>> THEN Selections(filtered, used, rounds - 1)
        ELSE UNION {{<<available[i]>> \o rest :
                        rest \in Selections(Remove(filtered, available[i]),
                                            used \cup Range(available[i].primaryMuscles),
                                            rounds - 1)} :
                    i \in 1..Len(available)}

WorkoutExercise(exercise, fitness_level) ==
    [exercise     |-> exercise,
     sets         |-> _calculate_sets_reps(exercise, fitness_level).sets,
     reps         |-> _calculate_sets_reps(exercise, fitness_level).reps,
     rest_seconds |-> IF exercise.category = "strength" THEN 60 ELSE 30]

\* The plan returned when the random choices select selected_exercises.
WorkoutPlan(selected_exercises, fitness_level, target_muscles, workout_type, duration_minutes, equipment) ==
    [title             |-> Title(fitness_level) \o " " \o Title(workout_type) \o " Workout",
     duration_minutes  |-> duration_minutes,
     exercises         |-> [i \in 1..Len(selected_exercises) |->
                               WorkoutExercise(selected_exercises[i], fitness_level)],
     total_exercises   |-> Len(selected_exercises),
     target_muscles    |-> IF target_muscles # <<>> THEN target_muscles ELSE "Full body",
     equipment_needed  |-> IF Truthy(equipment) THEN equipment ELSE "Various",
     estimated_calories |-> _estimate_calories(duration_minutes, workout_type, fitness_level)]

----------------------------------------------------------------------------
(* get_exercise_by_name                                                      *)

\* The exercise at which a loop with `break` over the list stops: the first one
\* that passes the test (tests[i] for exercises[i]), as a one-element list.
FirstWhere(exercises, tests) ==
    LET hits == {i \in 1..Len(exercises) : tests[i]}
    IN  IF hits = {} THEN <<>>
        ELSE <<exercises[CHOOSE i \in hits : \A j \in hits : i <= j]>>

\* The lookup with the partial match only.
get_exercise_by_name_partial(exercises, exercise_name) ==
    IF exercises = <<>> THEN Failure("Could not load exercises data")
    ELSE IF ~IsStr(exercise_name) THEN Failure("Search failed")
    ELSE
    LET found_exercise == FirstWhere(exercises,
                              [i \in 1..Len(exercises) |->
                                  Contains(Lower(exercise_name), Lower(exercises[i].name))])
    IN  IF found_exercise # <<>> THEN Success([exercise |-> found_exercise[1]])
        ELSE Failure("Exercise '" \o exercise_name \o "' not found")

get_exercise_by_name(exercises, exercise_name) ==
    IF exercises = <<>> THEN Failure("Could not load exercises data")
    ELSE IF ~IsStr(exercise_name) THEN Failure("Search failed")
    ELSE
    LET exact   == FirstWhere(exercises,
                       [i \in 1..Len(exercises) |->
                           Lower(exercises[i].name) = Lower(exercise_name)])
        partial == FirstWhere(exercises,
                       [i \in 1..Len(exercises) |->
                           Contains(Lower(exercise_name), Lower(exercises[i].name))])
        found_exercise == IF exact # <<>> THEN exact ELSE partial
    IN  IF found_exercise # <<>> THEN Success([exercise |-> found_exercise[1]])
        ELSE Failure("Exercise '" \o exercise_name \o "' not found")

----------------------------------------------------------------------------
(* The calls made to the tools.                                              *)

MaxUlps == 2

WeightsKg2 == {140, 197}

Weights ==
    {[kg2 |-> w, ulps |-> u, nan |-> FALSE] : w \in WeightsKg2, u \in -MaxUlps..MaxUlps}
        \cup {[kg2 |-> 0, ulps |-> 0, nan |-> TRUE]}

Heights == {170, 175}

Ages == {0, 30}

Genders == {"male", "Male", "female", "other", None}

ActivityLevels ==
    {"sedentary", "light", "moderate", "active", "very_active", "extreme", AList}

Goals == {"weight_loss", "muscle_gain", "maintenance", "keto"}

CalorieCalls ==
    [op : {"calculate_daily_calories"}, weight_kg : Weights, height_cm : Heights,
     age : Ages, gender : Genders, activity_level : ActivityLevels, goal : Goals]

DailyTargets == {0, 10, 30, 180, 2000}

Restrictions == {<<>>, <<"vegan">>, <<"vegetarian", "gluten_free">>}

MealsPerDay == {2, 3, 4, 5, 6}

Days == {0, 1, 2}

MealPlanCalls ==
    [op : {"create_meal_plan"}, target_calories : DailyTargets,
     goal : Goals \cup {AList}, dietary_restrictions : Restrictions,
     meals_per_day : MealsPerDay, days : Days]

RecommendationCalls ==
    [op : {"get_nutrition_recommendations"}, goal : Goals \cup {AList},
     activity_level : ActivityLevels]

FoodNames == {"chicken", "Milk", "e", "nuts", "", "pizza", None}

PortionSizes == {0, 1000, 1505}

FoodCalls == [op : {"analyze_food_item"}, food_name : FoodNames, portion_size : PortionSizes]

\* A catalog in the format of data/exercises.json.
SampleCatalog ==
    <<Exercise("Incline Push-Up", "strength", "beginner", "body only",
               <<"chest">>, <<"shoulders", "triceps">>),
      Exercise("Push-Up", "strength", "beginner", "body only",
               <<"chest">>, <<"triceps">>),
      Exercise("Bodyweight Squat", "strength", "beginner", "body only",
               <<"quadriceps">>, <<"glutes", "hamstrings">>),
      Exercise("Barbell Curl", "strength", "beginner", "barbell",
               <<"biceps">>, <<"forearms">>),
      Exercise("Rope Jumping", "cardio", "intermediate", "other",
               <<"quadriceps">>, <<"calves", "hamstrings">>),
      Exercise("Child's Pose", "stretching", "beginner", None,
               <<"lower back">>, <<"glutes">>),
      Exercise("Box Jump", "plyometrics", "expert", "other",
               <<"hamstrings">>, <<"glutes">>)>>

\* A catalog with a record whose category and muscle are lists.
MalformedCatalog ==
    <<Exercise("Plank", AList, "beginner", None, <<AList>>, <<>>)>> \o SampleCatalog

\* data/exercises.json as a call finds it: missing or unparseable, an empty
\* list, or a catalog.
DataFiles ==
    {[parses |-> FALSE, content |-> <<>>],
     [parses |-> TRUE, content |-> <<>>],
     [parses |-> TRUE, content |-> SampleCatalog],
     [parses |-> TRUE, content |-> MalformedCatalog]}

SearchCalls ==
    [op : {"search_exercises"}, category : {None, "Strength", "cardio", AList},
     level : {None, "beginner"}, equipment : {None, "body"},
     muscle_groups : {<<>>, <<"Chest", "calves">>, <<None>>}, limit : {-1, 0, 2, 10}]

CategoryCalls == [op : {"get_exercise_categories"}]

MuscleCalls == [op : {"get_muscle_groups"}]

WorkoutCalls ==
    [op : {"create_workout_plan"}, fitness_level : {"beginner", "Beginner", "intermediate", "expert", None},
     target_muscles : {<<>>, <<"chest", "biceps">>},
     workout_type : {"strength", "mixed", AList}, duration_minutes : {6, 45},
     equipment : {None, "body only"}]

NameCalls ==
    [op : {"get_exercise_by_name"}, exercise_name : {"push-up", "Curl", "deadlift", "", None}]

\* The calls that follow the first one of a session, at most MaxEarlier.
MaxEarlier == 2

LaterCalls ==
    [op : {"get_nutrition_recommendations"}, goal : {"weight_loss", "keto"},
     activity_level : {"active", "sedentary"}]

\* What is kept of an earlier call: the call itself for
\* get_nutrition_recommendations, the name of the tool for the others.
Summary(c) ==
    IF c.op = "get_nutrition_recommendations" THEN c ELSE [op |-> c.op]

Calls ==
    CalorieCalls \cup MealPlanCalls \cup RecommendationCalls \cup FoodCalls
        \cup SearchCalls \cup CategoryCalls \cup MuscleCalls \cup WorkoutCalls \cup NameCalls

----------------------------------------------------------------------------
(* The state: the call being served and its envelope (status "none" until it *)
(* returns); the list load_exercises_data gave the call; and the locals of   *)
(* create_meal_plan, whose loops are followed pass by pass: meal_plan,       *)
(* daily_meals, and in `meal` the locals of the _create_single_meal call in  *)
(* progress (empty outside such a call); the table the local                 *)
(* `recommendations` of get_nutrition_recommendations was last bound to      *)
(* (empty before the first such call); and the calls made earlier.           *)

VARIABLES call, result, exercises, meal_plan, daily_meals, meal,
          recommendations, earlier

vars == <<call, result, exercises, meal_plan, daily_meals, meal,
          recommendations, earlier>>

Pending(op) == call.op = op /\ result.status = "none"

Init ==
    /\ call \in Calls
    /\ result = [status |-> "none"]
    /\ exercises = <<>>
    /\ meal_plan = <<>>
    /\ daily_meals = <<>>
    /\ meal = <<>>
    /\ recommendations = <<>>
    /\ earlier = <<>>

CallCalculateDailyCalories ==
    /\ Pending("calculate_daily_calories")
    /\ result' = calculate_daily_calories(call.weight_kg, call.height_cm, call.age,
                                          call.gender, call.activity_level, call.goal)
    /\ UNCHANGED <<call, exercises, meal_plan, daily_meals, meal, recommendations, earlier>>

\* create_meal_plan, a pass of the inner loop up to the entry of
\* _create_single_meal, whose template lookup raises for an unhashable goal.
CreateMealPlanSlot ==
    /\ Pending("create_meal_plan")
    /\ Len(meal_plan) < call.days
    /\ meal = <<>>
    /\ IF ~IsHashable(call.goal)
       THEN /\ result' = Failure("Meal plan creation failed")
            /\ UNCHANGED meal
       ELSE /\ meal' = <<EnterSingleMeal(
                            MealType(call.goal, MealDistribution(call.meals_per_day),
                                     Len(daily_meals)),
                            MealCalories(call.target_calories,
                                         MealDistribution(call.meals_per_day),
                                         Len(daily_meals)),
                            call.goal)>>
            /\ UNCHANGED result
    /\ UNCHANGED <<call, exercises, meal_plan, daily_meals, recommendations, earlier>>

\* _create_single_meal, one pass of the loop over the components.
CreateSingleMealComponent ==
    /\ Pending("create_meal_plan")
    /\ meal # <<>>
    /\ InLoop(meal[1])
    /\ LET component  == meal[1].meal_components[meal[1].done + 1]
           food_items == ComponentFoods(component, call.dietary_restrictions)
       IN  IF ~Recognized(component) \/ food_items = <<>>
           THEN meal' = <<SingleMealPass(meal[1], component, food_items, [name |-> ""])>>
           ELSE \E food \in Range(food_items) :
                    meal' = <<SingleMealPass(meal[1], component, food_items, food)>>
    /\ UNCHANGED <<call, result, exercises, meal_plan, daily_meals, recommendations, earlier>>

\* The return of _create_single_meal and the rest of the pass: the meal is
\* appended to daily_meals, and after the day's last meal the day is appended
\* to meal_plan.
CreateMealPlanAppend ==
    /\ Pending("create_meal_plan")
    /\ meal # <<>>
    /\ ~InLoop(meal[1])
    /\ IF Len(daily_meals) + 1 < Len(MealDistribution(call.meals_per_day))
       THEN /\ daily_meals' = Append(daily_meals, DailyMeal(meal[1]))
            /\ UNCHANGED meal_plan
       ELSE /\ meal_plan' = Append(meal_plan,
                   [day          |-> Len(meal_plan) + 1,
                    meals        |-> Append(daily_meals, DailyMeal(meal[1])),
                    daily_totals |-> _calculate_daily_totals(
                                         Append(daily_meals, DailyMeal(meal[1])))])
            /\ daily_meals' = <<>>
    /\ meal' = <<>>
    /\ UNCHANGED <<call, result, exercises, recommendations, earlier>>

CreateMealPlanReturn ==
    /\ Pending("create_meal_plan")
    /\ Len(meal_plan) >= call.days
    /\ result' = Success(MealPlanData(meal_plan, call.target_calories, call.goal,
                                      call.dietary_restrictions, call.days))
    /\ UNCHANGED <<call, exercises, meal_plan, daily_meals, meal, recommendations, earlier>>

CallGetNutritionRecommendations ==
    /\ Pending("get_nutrition_recommendations")
    /\ recommendations' = RecommendationsAfter(BuildRecommendations(recommendations),
                                                call.goal, call.activity_level)
    /\ result' = get_nutrition_recommendations(BuildRecommendations(recommendations),
                                               call.goal, call.activity_level)
    /\ UNCHANGED <<call, exercises, meal_plan, daily_meals, meal, earlier>>

CallAnalyzeFoodItem ==
    /\ Pending("analyze_food_item")
    /\ result' = analyze_food_item(call.food_name, call.portion_size)
    /\ UNCHANGED <<call, exercises, meal_plan, daily_meals, meal, recommendations, earlier>>

CallSearchExercises ==
    /\ Pending("search_exercises")
    /\ \E file \in DataFiles :
        /\ exercises' = load_exercises_data(file)
        /\ result' = search_exercises(exercises', call.category, call.level,
                                      call.equipment, call.muscle_groups, call.limit)
    /\ UNCHANGED <<call, meal_plan, daily_meals, meal, recommendations, earlier>>

CallGetExerciseCategories ==
    /\ Pending("get_exercise_categories")
    /\ \E file \in DataFiles :
        /\ exercises' = load_exercises_data(file)
        /\ result' = get_exercise_categories(exercises')
    /\ UNCHANGED <<call, meal_plan, daily_meals, meal, recommendations, earlier>>

CallGetMuscleGroups ==
    /\ Pending("get_muscle_groups")
    /\ \E file \in DataFiles :
        /\ exercises' = load_exercises_data(file)
        /\ result' = get_muscle_groups(exercises')
    /\ UNCHANGED <<call, meal_plan, daily_meals, meal, recommendations, earlier>>

\* create_workout_plan: the filters, then the selection loop, whose membership
\* test raises on a primary muscle that is a list, then the plan.
CallCreateWorkoutPlan ==
    /\ Pending("create_workout_plan")
    /\ \E file \in DataFiles :
        /\ exercises' = load_exercises_data(file)
        /\ LET filtered == WorkoutCandidates(exercises', call.fitness_level,
                                             call.target_muscles, call.workout_type,
                                             call.equipment)
           IN  IF exercises' = <<>>
               THEN result' = Failure("Could not load exercises data")
               ELSE IF filtered.raised
               THEN result' = Failure("Workout plan creation failed")
               ELSE IF filtered.list = <<>>
               THEN result' = Failure("No exercises found matching criteria")
               ELSE IF \E i \in 1..Len(filtered.list) :
                          \E m \in Range(filtered.list[i].primaryMuscles) : ~IsHashable(m)
               THEN result' = Failure("Workout plan creation failed")
               ELSE \E selected_exercises \in
                          Selections(filtered.list, {},
                                     TargetExerciseCount(call.duration_minutes)) :
                        result' = Success([workout_plan |->
                            WorkoutPlan(selected_exercises, call.fitness_level,
                                        call.target_muscles, call.workout_type,
                                        call.duration_minutes, call.equipment)])
    /\ UNCHANGED <<call, meal_plan, daily_meals, meal, recommendations, earlier>>

CallGetExerciseByName ==
    /\ Pending("get_exercise_by_name")
    /\ \E file \in DataFiles :
        /\ exercises' = load_exercises_data(file)
        /\ result' = get_exercise_by_name(exercises', call.exercise_name)
    /\ UNCHANGED <<call, meal_plan, daily_meals, meal, recommendations, earlier>>

\* The caller asks again once a call has returned: each tool call starts
\* with fresh locals, and `recommendations` keeps what the name was last
\* bound to until the next call of get_nutrition_recommendations assigns it.
NextCall ==
    /\ result.status # "none"
    /\ Len(earlier) < MaxEarlier
    /\ call' \in LaterCalls
    /\ earlier' = Append(earlier, Summary(call))
    /\ result' = [status |-> "none"]
    /\ exercises' = <<>>
    /\ meal_plan' = <<>>
    /\ daily_meals' = <<>>
    /\ meal' = <<>>
    /\ UNCHANGED recommendations

Next ==
    \/ NextCall
    \/ CallCalculateDailyCalories
    \/ CreateMealPlanSlot
    \/ CreateSingleMealComponent
    \/ CreateMealPlanAppend
    \/ CreateMealPlanReturn
    \/ CallGetNutritionRecommendations
    \/ CallAnalyzeFoodItem
    \/ CallSearchExercises
    \/ CallGetExerciseCategories
    \/ CallGetMuscleGroups
    \/ CallCreateWorkoutPlan
    \/ CallGetExerciseByName

Spec == Init /\ [][Next]_vars


----------------------------------------------------------------------------
(* The properties of the tools.                                              *)

Returned(op) == call.op = op /\ result.status # "none"

Succeeded(op) == call.op = op /\ result.status = "success"

\* A call of calculate_daily_calories none of whose arguments faults: gender
\* and activity_level are strings and weight_kg is a number.
Computes ==
    /\ Returned("calculate_daily_calories")
    /\ IsStr(call.gender)
    /\ IsStr(call.activity_level)
    /\ ~call.weight_kg.nan

\* The data calculate_daily_calories reports for the arguments of the call,
\* with `gender` in the place of the call's.
ReportFor(gender) ==
    calculate_daily_calories(call.weight_kg, call.height_cm, call.age, gender,
                             call.activity_level, call.goal).data

\* 4 * BMR of the call by the Mifflin-St Jeor formula, in exact arithmetic on
\* the weight kg2 / 2: 4 * (10 w + 6.25 h - 5 a + 5), or - 161 in place of + 5.
ExactBmr4 ==
    20 * call.weight_kg.kg2 + 25 * call.height_cm - 20 * call.age
        + (IF Lower(call.gender) = "male" THEN 20 ELSE -644)

\* The multipliers of the table, in thousandths.
TableMultiplier ==
    CASE call.activity_level = "sedentary"   -> 1200
      [] call.activity_level = "light"       -> 1375
      [] call.activity_level = "moderate"    -> 1550
      [] call.activity_level = "active"      -> 1725
      [] call.activity_level = "very_active" -> 1900
      [] OTHER                               -> 1550

\* The adjustment of the goal.
GoalAdjustment ==
    IF call.goal = "weight_loss" THEN -500
    ELSE IF call.goal = "muscle_gain" THEN 300
    ELSE 0

\* 4000 * target calories of the call, in exact arithmetic.
ExactTarget4000 == ExactBmr4 * TableMultiplier + 4000 * GoalAdjustment

\* The ratios of the goal in hundredths: protein, carbohydrate, fat.
TableRatios ==
    IF call.goal = "muscle_gain" THEN <<30, 40, 30>>
    ELSE IF call.goal = "weight_loss" THEN <<35, 30, 35>>
    ELSE <<25, 45, 30>>

\* grams is an integer nearest to target calories * ratio / perGram, in exact
\* arithmetic: 2 |g - T r / p| <= 1 over the denominator 16000 p (every
\* multiplier in thousandths is a multiple of 25, so the division is exact).
NearestGrams(grams, ratio, perGram) ==
    2 * Abs(16000 * perGram * grams - (ExactTarget4000 \div 25) * ratio) <= 16000 * perGram

\* The names of the animal-product exclusion list.
AnimalProducts ==
    {"Chicken Breast", "Turkey Breast", "Lean Beef", "Salmon", "Tuna",
     "Greek Yogurt", "Cottage Cheese", "Milk (2%)"}

\* Every meal of the call so far: those of the days of meal_plan, those of
\* daily_meals, and those of the days of a returned plan.
MealsOf(plan) == UNION {Range(plan[d].meals) : d \in 1..Len(plan)}

AllMeals ==
    MealsOf(meal_plan) \cup Range(daily_meals)
        \cup (IF Succeeded("create_meal_plan") THEN MealsOf(result.data.meal_plan) ELSE {})

\* Every day of the call so far.
AllDays ==
    Range(meal_plan)
        \cup (IF Succeeded("create_meal_plan") THEN Range(result.data.meal_plan) ELSE {})

RECURSIVE SumCalories(_, _)
SumCalories(foods, n) ==
    IF n = 0 THEN 0 ELSE SumCalories(foods, n - 1) + foods[n].calories

RECURSIVE SumHundredths(_, _)
SumHundredths(fractions, n) ==
    IF n = 0 THEN 0 ELSE SumHundredths(fractions, n - 1) + fractions[n]

\* C1: whatever the arguments, faulting ones included, what a call of any of
\* the nine tools ends with is a result with the status "success", data and no
\* error_message, or with the status "error", error_message and no data: no
\* exception leaves the call.
UniformEnvelope ==
    result.status # "none" =>
        \/ result.status = "success" /\ DOMAIN result = {"status", "data"}
        \/ result.status = "error" /\ DOMAIN result = {"status", "error_message"}

\* A gender that is no string has faulted inside calculate_daily_calories and
\* the call has returned an error envelope.
FaultReturnsError ==
    /\ Returned("calculate_daily_calories")
    /\ call.gender = None
    /\ result.status = "error"

\* C2, as claimed: for every weight, height and age, a gender string that is
\* not recognized as male gives a success result whose bmr is exactly 166
\* below the bmr reported for "male" with the same arguments.
MaleBmrExactly166Above ==
    (Computes /\ Lower(call.gender) # "male")
        => /\ result.status = "success"
           /\ ReportFor("male").bmr - result.data.bmr = 166

\* C2, amended: a gender string that is not recognized as male gives a success
\* result with the bmr of "female"; the bmr reported for "male" is 165, 166 or
\* 167 above it, and exactly 166 above it when weight_kg is a multiple of 0.5.
MaleBmrAbout166Above ==
    (Computes /\ Lower(call.gender) # "male")
        => /\ result.status = "success"
           /\ result.data.bmr = ReportFor("female").bmr
           /\ ReportFor("male").bmr - result.data.bmr \in 165..167
           /\ call.weight_kg.ulps = 0 => ReportFor("male").bmr - result.data.bmr = 166

\* An unrecognized gender string has been computed, for a weight that is a
\* multiple of 0.5, and "male" gives 166 more.
UnrecognizedGenderComputed ==
    /\ Succeeded("calculate_daily_calories")
    /\ call.gender = "other"
    /\ call.weight_kg.ulps = 0
    /\ ReportFor("male").bmr - result.data.bmr = 166

\* C3: the reported tdee is an integer nearest to the unrounded BMR times the
\* multiplier of the table, 1.55 for every activity_level string outside the
\* table, and the result is a success.
TdeeIsBmrTimesMultiplier ==
    Computes
        => /\ result.status = "success"
           /\ 2 * Abs(4000 * result.data.tdee - ExactBmr4 * TableMultiplier) <= 4000

\* An activity_level outside the table has given a success result.
UnknownActivityComputed ==
    /\ Succeeded("calculate_daily_calories")
    /\ call.activity_level = "extreme"
    /\ 2 * Abs(4000 * result.data.tdee - ExactBmr4 * 1550) <= 4000

\* C4, as claimed: the reported target_calories is exactly the reported tdee
\* minus 500 for weight_loss, plus 300 for muscle_gain, and the reported tdee
\* for every other goal.
TargetExactlyAdjusted ==
    Succeeded("calculate_daily_calories")
        => result.data.target_calories = result.data.tdee + GoalAdjustment

\* C4, amended: the reported target_calories is within 1 of the reported tdee
\* minus 500 for weight_loss and plus 300 for muscle_gain, it is exactly that
\* when weight_kg is a multiple of 0.5, and it is the reported tdee for every
\* other goal.
TargetAboutAdjusted ==
    Succeeded("calculate_daily_calories")
        => /\ result.data.target_calories - (result.data.tdee + GoalAdjustment) \in -1..1
           /\ call.weight_kg.ulps = 0
                 => result.data.target_calories = result.data.tdee + GoalAdjustment
           /\ GoalAdjustment = 0 => result.data.target_calories = result.data.tdee

\* A muscle_gain call has reported a target_calories 299 above its tdee.
TargetOneBelow ==
    /\ Succeeded("calculate_daily_calories")
    /\ call.goal = "muscle_gain"
    /\ result.data.target_calories = result.data.tdee + 299

\* C5: for every goal string the three reported percentages are the ratios of
\* the table and sum to 100, and the reported grams are the integers nearest
\* to target_calories times the ratio, divided by 4, 4 and 9.
MacrosFollowRatios ==
    Computes
        => /\ result.status = "success"
           /\ LET m == result.data.macronutrients
              IN  /\ m.protein.percentage + m.carbohydrates.percentage + m.fats.percentage = 100
                  /\ <<m.protein.percentage, m.carbohydrates.percentage, m.fats.percentage>>
                         = TableRatios
                  /\ NearestGrams(m.protein.grams, TableRatios[1], 4)
                  /\ NearestGrams(m.carbohydrates.grams, TableRatios[2], 4)
                  /\ NearestGrams(m.fats.grams, TableRatios[3], 9)

\* A goal outside the table has been given the ratios 0.25 / 0.45 / 0.30.
OtherGoalMacros ==
    /\ Succeeded("calculate_daily_calories")
    /\ call.goal = "keto"
    /\ result.data.macronutrients.carbohydrates.percentage = 45
    /\ result.data.macronutrients.fats.grams > 0

\* The call of the example: 70 kg, 175 cm, 30 years, "male", "moderate",
\* "maintenance".
ExampleCall ==
    /\ Returned("calculate_daily_calories")
    /\ call.weight_kg = [kg2 |-> 140, ulps |-> 0, nan |-> FALSE]
    /\ call.height_cm = 175
    /\ call.age = 30
    /\ call.gender = "male"
    /\ call.activity_level = "moderate"
    /\ call.goal = "maintenance"

\* C6, as claimed: the example gives BMR 1727.5, TDEE 2677.625 reported as
\* 2678, and target_calories 2678.
ExampleGives2678 ==
    ExampleCall
        => /\ result.status = "success"
           /\ Bmr(call.weight_kg, call.height_cm, call.age, call.gender).q = Rat(3455, 2)
           /\ Tdee(Bmr(call.weight_kg, call.height_cm, call.age, call.gender),
                   call.activity_level).q = Rat(2677625, 1000)
           /\ result.data.tdee = 2678
           /\ result.data.target_calories = 2678

\* C6, amended: the example gives BMR 1648.75 (reported as 1649), TDEE
\* 2555.5625 reported as 2556, and target_calories 2556.
ExampleGives2556 ==
    ExampleCall
        => /\ result.status = "success"
           /\ Bmr(call.weight_kg, call.height_cm, call.age, call.gender).q = Rat(6595, 4)
           /\ Tdee(Bmr(call.weight_kg, call.height_cm, call.age, call.gender),
                   call.activity_level).q = Rat(40889, 16)
           /\ result.data.bmr = 1649
           /\ result.data.tdee = 2556
           /\ result.data.target_calories = 2556

\* The example has been computed.
ExampleComputed == ExampleCall /\ result.status = "success" /\ result.data.bmr = 1649

\* The number of slots claimed for meals_per_day.
ClaimedSlots == IF call.meals_per_day \in {3, 4, 5, 6} THEN call.meals_per_day ELSE 6

ClaimedLabel(index, slots) ==
    IF index = 0 THEN "Breakfast"
    ELSE IF index = slots - 1 THEN "Dinner"
    ELSE IF index = 1 /\ call.goal \in {"weight_loss", "muscle_gain", "maintenance"}
    THEN "Lunch"
    ELSE "Snack"

\* C8: in every day of a meal plan the first meal is labelled Breakfast, the
\* last Dinner, the one at index 1, when it is not the last, Lunch if the goal
\* has a template with a "lunch" key and Snack if not, and every other Snack.
LabelsByPosition ==
    call.op = "create_meal_plan"
        => /\ \A day \in AllDays : \A i \in 1..Len(day.meals) :
                  day.meals[i].meal_type = ClaimedLabel(i - 1, Len(day.meals))
           /\ \A i \in 1..Len(daily_meals) :
                  daily_meals[i].meal_type = ClaimedLabel(i - 1, ClaimedSlots)

\* A day of five meals has been labelled Breakfast, Lunch, Snack, Snack,
\* Dinner.
LabelledFiveMeals ==
    /\ Succeeded("create_meal_plan")
    /\ call.days = 1
    /\ call.goal = "maintenance"
    /\ call.meals_per_day = 5
    /\ [i \in 1..5 |-> result.data.meal_plan[1].meals[i].meal_type]
           = <<"Breakfast", "Lunch", "Snack", "Snack", "Dinner">>

\* C9: in every meal of a meal plan, for a target_calories >= 0, the calories
\* of the meal's foods, each rounded to an integer, sum to at most the meal's
\* target_calories; so they do in the meal being composed.
AllocationNotExceeded ==
    call.op = "create_meal_plan"
        => /\ \A m \in AllMeals : SumCalories(m.foods, Len(m.foods)) <= m.target_calories
           /\ \A i \in 1..Len(meal) :
                  SumCalories(meal[i].foods, Len(meal[i].foods)) <= meal[i].target_calories

\* A meal of three foods has used its target_calories up after rounding.
AllocationUsedUp ==
    /\ call.op = "create_meal_plan"
    /\ \E m \in AllMeals :
          /\ Len(m.foods) = 3
          /\ m.target_calories > 0
          /\ SumCalories(m.foods, 3) = m.target_calories

\* C10: with "vegan" among the restrictions, whatever random.choice returns,
\* no food chosen for a meal has a name of the animal-product exclusion list.
VeganExcludesAnimalProducts ==
    (call.op = "create_meal_plan" /\ InList("vegan", call.dietary_restrictions))
        => \A i \in 1..Len(meal) : meal[i].food \notin AnimalProducts

\* A protein has been chosen for a vegan meal.
VeganProteinChosen ==
    /\ call.op = "create_meal_plan"
    /\ InList("vegan", call.dietary_restrictions)
    /\ meal # <<>>
    /\ meal[1].food = "Tofu"

\* A meal is being composed and its next component is a protein component.
AtProteinComponent ==
    /\ call.op = "create_meal_plan"
    /\ meal # <<>>
    /\ InLoop(meal[1])
    /\ meal[1].meal_components[meal[1].done + 1]
           \in {"protein", "lean_protein", "balanced_protein"}

\* The names of the foods a component is chosen from.
PoolNames(component) ==
    {food.name : food \in Range(ComponentFoods(component, call.dietary_restrictions))}

\* C11: with "vegetarian" and not "vegan" among the restrictions, the foods a
\* protein component is chosen from include none of Chicken Breast, Turkey
\* Breast, Lean Beef, Salmon and Tuna, and include Greek Yogurt, Cottage
\* Cheese and Milk (2%).
VegetarianKeepsDairy ==
    (/\ AtProteinComponent
     /\ InList("vegetarian", call.dietary_restrictions)
     /\ ~InList("vegan", call.dietary_restrictions))
        => /\ PoolNames(meal[1].meal_components[meal[1].done + 1])
                  \cap {"Chicken Breast", "Turkey Breast", "Lean Beef", "Salmon", "Tuna"} = {}
           /\ {"Greek Yogurt", "Cottage Cheese", "Milk (2%)"}
                  \subseteq PoolNames(meal[1].meal_components[meal[1].done + 1])

\* The slot being composed, counted from 0.
SlotIndex == Len(daily_meals)

\* C12: for a goal that is no key of MEAL_TEMPLATES, the meal of every slot
\* has the label and the component list that the slot has in a plan for the
\* goal "maintenance".
UnknownGoalAsMaintenance ==
    (/\ call.op = "create_meal_plan"
     /\ IsHashable(call.goal)
     /\ call.goal \notin DOMAIN MEAL_TEMPLATES
     /\ meal # <<>>)
        => /\ meal[1].meal_type
                  = MealType("maintenance", MealDistribution(call.meals_per_day), SlotIndex)
           /\ meal[1].meal_components
                  = MealComponents("maintenance",
                        Lower(MealType("maintenance", MealDistribution(call.meals_per_day),
                                       SlotIndex)))

\* An exercise of the catalog satisfies every filter the search call gives: a
\* filter that is None or empty is omitted and does not restrict.
SearchMatches(ex) ==
    /\ ~Truthy(call.category) \/ Lower(ex.category) = Lower(call.category)
    /\ ~Truthy(call.level) \/ Lower(ex.level) = Lower(call.level)
    /\ ~Truthy(call.equipment) \/ Contains(Lower(call.equipment), Lower(ex.equipment))
    /\ \/ call.muscle_groups = <<>>
       \/ \E m \in Range(ex.primaryMuscles \o ex.secondaryMuscles) :
              \E g \in Range(call.muscle_groups) : Lower(m) = Lower(g)

\* The arguments of the search call are strings (or omitted) and so are the
\* fields of the catalog its filters read.
SearchWellTyped ==
    /\ \A v \in {call.category, call.level, call.equipment} : ~Truthy(v) \/ IsStr(v)
    /\ \A g \in Range(call.muscle_groups) : IsStr(g)
    /\ \A ex \in Range(exercises) :
          /\ IsStr(ex.category) /\ IsStr(ex.level)
          /\ ~Truthy(call.equipment) \/ IsStr(ex.equipment)
          /\ \A m \in Range(ex.primaryMuscles \o ex.secondaryMuscles) : IsStr(m)

\* The first n elements of a list, all of them when it has fewer.
FirstOf(list, n) == SubSeq(list, 1, IF n < Len(list) THEN n ELSE Len(list))

PlanMatches(ex) ==
    /\ Lower(ex.level) = Lower(call.fitness_level)
    /\ call.workout_type = "mixed" \/ Lower(ex.category) = Lower(call.workout_type)
    /\ ~Truthy(call.equipment) \/ Contains(Lower(call.equipment), Lower(ex.equipment))
    /\ \/ call.target_muscles = <<>>
       \/ \E m \in Range(ex.primaryMuscles) :
              \E g \in Range(call.target_muscles) : Lower(m) = Lower(g)

\* C14: create_workout_plan returns the error envelope, and no plan, when the
\* catalog is empty or no exercise passes the filters; a plan it returns has
\* at least one exercise.
NoCandidatesNoPlan ==
    Returned("create_workout_plan")
        => /\ (\A i \in DOMAIN exercises : ~PlanMatches(exercises[i]))
                  => /\ result.status = "error"
                     /\ DOMAIN result = {"status", "error_message"}
           /\ result.status = "success"
                  => Len(result.data.workout_plan.exercises) >= 1

\* The catalog was loaded and no exercise of it passed the filters.
NoExerciseMatched ==
    /\ Returned("create_workout_plan")
    /\ exercises # <<>>
    /\ result.status = "error"
    /\ result.error_message = "No exercises found matching criteria"

\* No exercise of the loaded catalog satisfies the filters of the search call.
NothingMatches == \A i \in DOMAIN exercises : ~SearchMatches(exercises[i])

\* C15 as stated: search_exercises returns status "error" both when the
\* catalog failed to load and when the pool left after the filters is empty.
SearchErrorWhenNothingMatches ==
    (Returned("search_exercises") /\ NothingMatches) => result.status = "error"

\* C15: search_exercises returns the error envelope when the catalog failed to
\* load; when the catalog is loaded, its arguments and the fields its filters
\* read are strings, and no exercise passes the filters, it returns status
\* "success" with an empty exercises list and total_found 0.
SearchErrorOnlyWithoutCatalog ==
    Returned("search_exercises")
        => /\ exercises = <<>>
                  => /\ result.status = "error"
                     /\ result.error_message = "Could not load exercises data"
           /\ (exercises # <<>> /\ SearchWellTyped /\ NothingMatches)
                  => /\ result.status = "success"
                     /\ result.data.exercises = <<>>
                     /\ result.data.total_found = 0

\* A search of a loaded catalog with filters that no exercise passes has
\* returned.
SearchFoundNothing ==
    /\ Returned("search_exercises")
    /\ exercises # <<>>
    /\ SearchWellTyped
    /\ Truthy(call.category)
    /\ NothingMatches

\* The number of exercises of the catalog that pass the filters of the
\* workout-plan call.
PoolSize == Len(SelectSeq(exercises, PlanMatches))

\* max(3, min(duration_minutes // 3, 10)), from the claim's words.
ClaimedTarget ==
    LET byTime == call.duration_minutes \div 3
    IN  IF byTime <= 3 THEN 3 ELSE IF byTime >= 10 THEN 10 ELSE byTime

\* C16: a plan returned by create_workout_plan has min(target, pool size)
\* exercises, where target = max(3, min(duration_minutes // 3, 10)): 10 for a
\* 45-minute request and 3 for a 6-minute request.
PlanLengthIsMinOfTargetAndPool ==
    /\ TargetExerciseCount(45) = 10
    /\ TargetExerciseCount(6) = 3
    /\ Succeeded("create_workout_plan")
          => /\ TargetExerciseCount(call.duration_minutes) = ClaimedTarget
             /\ Len(result.data.workout_plan.exercises)
                   = IF ClaimedTarget < PoolSize THEN ClaimedTarget ELSE PoolSize
             /\ result.data.workout_plan.total_exercises
                   = Len(result.data.workout_plan.exercises)

\* A 6-minute plan of 3 exercises has been returned from a pool of more
\* than 3.
ShortPlanFromLargerPool ==
    /\ Succeeded("create_workout_plan")
    /\ call.duration_minutes = 6
    /\ PoolSize > 3
    /\ Len(result.data.workout_plan.exercises) = 3

\* A 45-minute plan has been returned that holds the whole pool, which is
\* smaller than the target of 10.
LongPlanExhaustsPool ==
    /\ Succeeded("create_workout_plan")
    /\ call.duration_minutes = 45
    /\ PoolSize > 1
    /\ Len(result.data.workout_plan.exercises) = PoolSize

\* The exercises of a plan, as the catalog records they were built from.
PlanExercises ==
    [i \in DOMAIN result.data.workout_plan.exercises
        |-> result.data.workout_plan.exercises[i].exercise]

FirstCallPrinciples ==
    Recommendations[IF call.goal \in DOMAIN Recommendations
                    THEN call.goal ELSE "maintenance"].key_principles
        \o (IF call.activity_level \in {"active", "very_active"}
            THEN <<"Increase carbohydrate intake to fuel workouts",
                   "Focus on post-workout recovery nutrition">>
            ELSE <<>>)

CurrentComponent == meal[1].meal_components[meal[1].done + 1]

\* A meal is being composed and its next component is a recognized one.
AtRecognizedComponent ==
    /\ Pending("create_meal_plan")
    /\ meal # <<>>
    /\ InLoop(meal[1])
    /\ Recognized(CurrentComponent)

\* The frame after a pass over the current component with the candidate list
\* food_items, the first of which is chosen.
PassWith(food_items) ==
    SingleMealPass(meal[1], CurrentComponent, food_items,
                   IF food_items = <<>> THEN [name |-> ""] ELSE food_items[1])

ClaimedPercent ==
    [protein |-> 30, lean_protein |-> 30, balanced_protein |-> 30,
     minimal_carbs |-> 15, moderate_carbs |-> 25, complex_carbs |-> 40, carbs |-> 40,
     healthy_fats |-> 25, fats |-> 25, vegetables |-> 20, fruits |-> 15, nuts |-> 15]

\* The calories a pass has added to the meal's total: its allocation.
Allocated == RSub(meal'[1].total_calories.q, meal[1].total_calories.q)

\* C20: every pass of the loop over a meal's components handles the next
\* component of the template's list, chooses its food among the candidates of
\* that component, and allocates to it the claimed fraction of the calories
\* remaining at that point; each of the twelve tags is recognized and has
\* the claimed fraction as its share, and a pass over a tag that is none of
\* them moves on and leaves the frame as it was.
AllocationByFraction ==
    [][(Pending("create_meal_plan") /\ meal # <<>> /\ InLoop(meal[1])
            /\ meal' # <<>> /\ meal'[1] # meal[1])
          => /\ meal'[1].done = meal[1].done + 1
             /\ meal'[1].meal_components = meal[1].meal_components
             /\ CurrentComponent \in DOMAIN ClaimedPercent
             /\ meal'[1].food \in PoolNames(CurrentComponent)
             /\ Allocated = RMul(meal[1].remaining_calories.q,
                                 Rat(ClaimedPercent[CurrentComponent], 100))
             /\ \A tag \in DOMAIN ClaimedPercent :
                    /\ Recognized(tag)
                    /\ ComponentPercent(tag) = ClaimedPercent[tag]
             /\ ~Recognized("dessert")
             /\ SingleMealPass(meal[1], "dessert", <<[name |-> "Cake"]>>, [name |-> "Cake"])
                    = [meal[1] EXCEPT !.done = @ + 1]]_vars

\* The second food of a meal has been allocated less than its fraction of the
\* meal's target: its fraction of what the first component left.
SecondShareOfRemainder ==
    /\ Pending("create_meal_plan")
    /\ meal # <<>>
    /\ meal[1].done = 2
    /\ Len(meal[1].foods) = 2
    /\ meal[1].foods[2].calories > 0
    /\ meal[1].foods[2].calories * 100
           < ClaimedPercent[meal[1].meal_components[2]] * meal[1].target_calories - 100

---------------------------------------------------------------------------
(* The selection, the sets and reps, the daily totals, the snack slots and   *)
(* the lookups by name                                                       *)

\* The exercises a returned plan selected, in the order of selection.
Selected == PlanExercises

\* The pool still to choose from at selection step i: the exercises that pass
\* the filters, without those chosen at the earlier steps.
RemainingAt(i) ==
    Range(SelectSeq(exercises, PlanMatches)) \ {Selected[j] : j \in 1..(i - 1)}

\* The primary muscles used since the last reset, after selection step i, as
\* the claim tracks them: cleared at a step at which no exercise of the
\* remaining pool avoids them, and then restarted with the chosen exercise's.
RECURSIVE UsedAfter(_)
UsedAfter(i) ==
    IF i = 0 THEN {}
    ELSE IF \E ex \in RemainingAt(i) : Range(ex.primaryMuscles) \cap UsedAfter(i - 1) = {}
    THEN UsedAfter(i - 1) \cup Range(Selected[i].primaryMuscles)
    ELSE Range(Selected[i].primaryMuscles)

\* C21: at every selection step of a returned plan the chosen exercise is one
\* of the remaining pool, and if the remaining pool holds an exercise none of
\* whose primary muscles was used since the last reset, the chosen exercise is
\* such an exercise; only otherwise is it any exercise of the remaining pool.
DiverseChoiceFirst ==
    Succeeded("create_workout_plan")
        => \A i \in DOMAIN Selected :
               /\ Selected[i] \in RemainingAt(i)
               /\ (\E ex \in RemainingAt(i) :
                       Range(ex.primaryMuscles) \cap UsedAfter(i - 1) = {})
                      => Range(Selected[i].primaryMuscles) \cap UsedAfter(i - 1) = {}

\* A plan has been returned whose second choice avoided the muscles of the
\* first while an exercise sharing a muscle with the first was in the pool,
\* and which chose that exercise later, after a reset.
DiversityThenReset ==
    /\ Succeeded("create_workout_plan")
    /\ Len(Selected) >= 3
    /\ Range(Selected[2].primaryMuscles) \cap Range(Selected[1].primaryMuscles) = {}
    /\ \E i \in 3..Len(Selected) :
          /\ Range(Selected[i].primaryMuscles) \cap Range(Selected[1].primaryMuscles) # {}
          /\ Range(Selected[i].primaryMuscles) \cap UsedAfter(i - 1) # {}

\* The three fitness levels of the lookup.
Levels == <<"beginner", "intermediate", "expert">>

\* The lookup of the claim: for a category, the sets and reps at the three
\* levels; every category other than cardio, stretching and strength has the
\* last row.
ClaimedSetsReps(category) ==
    IF category = "cardio"
    THEN <<[sets |-> 3, reps |-> "30 seconds"], [sets |-> 4, reps |-> "45 seconds"],
           [sets |-> 5, reps |-> "60 seconds"]>>
    ELSE IF category = "stretching"
    THEN <<[sets |-> 1, reps |-> "30 seconds hold"], [sets |-> 1, reps |-> "30 seconds hold"],
           [sets |-> 1, reps |-> "30 seconds hold"]>>
    ELSE IF category = "strength"
    THEN <<[sets |-> 3, reps |-> "8-10 reps"], [sets |-> 3, reps |-> "10-12 reps"],
           [sets |-> 4, reps |-> "12-15 reps"]>>
    ELSE <<[sets |-> 2, reps |-> "5-8 reps"], [sets |-> 3, reps |-> "8-10 reps"],
           [sets |-> 4, reps |-> "10-12 reps"]>>

\* C22: every exercise entry of a plan for fitness level beginner,
\* intermediate or expert has the sets and reps of the lookup for its
\* category and the level, and rest_seconds 60 for a strength exercise and 30
\* for any other; the code's lookup has the claimed row for each category.
SetsRepsFromLookup ==
    /\ \A category \in {"cardio", "stretching", "strength", "plyometrics", "strongman"} :
           \A n \in DOMAIN Levels :
               _calculate_sets_reps([category |-> category], Levels[n])
                   = ClaimedSetsReps(category)[n]
    /\ Succeeded("create_workout_plan")
          => \A n \in DOMAIN Levels :
                 call.fitness_level = Levels[n]
                     => \A i \in DOMAIN result.data.workout_plan.exercises :
                            LET entry == result.data.workout_plan.exercises[i]
                            IN  /\ entry.sets = ClaimedSetsReps(entry.exercise.category)[n].sets
                                /\ entry.reps = ClaimedSetsReps(entry.exercise.category)[n].reps
                                /\ entry.rest_seconds
                                       = IF entry.exercise.category = "strength" THEN 60 ELSE 30

\* A beginner plan with a strength exercise and a stretching exercise has been
\* returned.
MixedBeginnerPlan ==
    /\ Succeeded("create_workout_plan")
    /\ call.fitness_level = "beginner"
    /\ \E i, j \in DOMAIN Selected :
          /\ Selected[i].category = "strength"
          /\ Selected[j].category = "stretching"

\* An expert plan has been returned.
ExpertPlan ==
    /\ Succeeded("create_workout_plan")
    /\ call.fitness_level = "expert"
    /\ \E i \in DOMAIN Selected : Selected[i].category = "plyometrics"

\* The total_calories of the meals of a day, added up from the first meal.
RECURSIVE TotalOfMeals(_)
TotalOfMeals(meals) ==
    IF meals = <<>> THEN 0 ELSE Head(meals).total_calories + TotalOfMeals(Tail(meals))

\* C23: for each day of a meal plan, daily_totals.calories is the sum of the
\* total_calories of the day's meals, and for a target_calories >= 0 it is at
\* most target_calories.
DailyTotalsSumMeals ==
    call.op = "create_meal_plan"
        => \A day \in AllDays :
               /\ day.daily_totals.calories = TotalOfMeals(day.meals)
               /\ call.target_calories >= 0
                      => day.daily_totals.calories <= call.target_calories

\* A plan has been returned with a day of five meals whose calories are above
\* zero and short of the target.
DailyTotalShortOfTarget ==
    /\ Succeeded("create_meal_plan")
    /\ \E day \in Range(result.data.meal_plan) :
          /\ Len(day.meals) = 5
          /\ day.daily_totals.calories > 0
          /\ day.daily_totals.calories < call.target_calories

\* C24: a slot labelled Snack is composed from the default list protein,
\* carbs, vegetables, never from a template's "snacks" list, and no meal of a
\* plan has a "fruits" or a "nuts" component.
SnackFromDefaultList ==
    (call.op = "create_meal_plan" /\ meal # <<>>)
        => /\ meal[1].meal_type = "Snack"
                  => meal[1].meal_components = <<"protein", "carbs", "vegetables">>
           /\ Range(meal[1].meal_components) \cap {"fruits", "nuts"} = {}

\* A Snack of a plan for muscle_gain, whose template has a "snacks" list with
\* nuts and fruits, has been composed of three foods.
SnackComposed ==
    /\ Pending("create_meal_plan")
    /\ call.goal = "muscle_gain"
    /\ meal # <<>>
    /\ meal[1].meal_type = "Snack"
    /\ "snacks" \in DOMAIN MEAL_TEMPLATES[call.goal]
    /\ meal[1].done = 3
    /\ Len(meal[1].foods) = 3

\* C25: a plan for a fitness_level that is beginner, intermediate or expert
\* in some letter case is chosen from the pool of the lower-case level, gives
\* every exercise the sets and reps of the lower-case level, and has the
\* estimated_calories of the lower-case level.
LevelCaseInsensitive ==
    Succeeded("create_workout_plan")
        => \A n \in DOMAIN Levels :
               Lower(call.fitness_level) = Levels[n]
                   => /\ \A i \in DOMAIN Selected : Lower(Selected[i].level) = Levels[n]
                      /\ \A i \in DOMAIN result.data.workout_plan.exercises :
                             LET entry == result.data.workout_plan.exercises[i]
                             IN  /\ entry.sets = ClaimedSetsReps(entry.exercise.category)[n].sets
                                 /\ entry.reps = ClaimedSetsReps(entry.exercise.category)[n].reps
                      /\ result.data.workout_plan.estimated_calories
                             = _estimate_calories(call.duration_minutes, call.workout_type,
                                                  Levels[n])

\* The foods of the database in its order: category, then sub-category, then
\* item.
FoodsInOrder ==
    NUTRITION_DATABASE.proteins.lean_meats \o NUTRITION_DATABASE.proteins.dairy
        \o NUTRITION_DATABASE.proteins.plant_based
        \o NUTRITION_DATABASE.carbohydrates.complex \o NUTRITION_DATABASE.carbohydrates.fruits
        \o NUTRITION_DATABASE.fats.healthy
        \o NUTRITION_DATABASE.vegetables

\* The foods whose name contains the food_name of the call, ignoring case, in
\* the order of the database.
FoodMatches ==
    SelectSeq(FoodsInOrder, LAMBDA food : Contains(Lower(call.food_name), Lower(food.name)))

\* C26: analyze_food_item with a food_name that is a string returns the first
\* food, in the order of the database, whose name contains food_name ignoring
\* case, and the error envelope when no name contains it.
FirstFoodAnalyzed ==
    (Returned("analyze_food_item") /\ IsStr(call.food_name))
        => IF FoodMatches = <<>>
           THEN result.status = "error"
           ELSE /\ result.status = "success"
                /\ result.data.food_name = FoodMatches[1].name

\* The exercises of the catalog whose name equals the exercise_name of the
\* call ignoring case, and those whose name contains it, in catalog order.
NamedExactly ==
    SelectSeq(exercises, LAMBDA ex : Lower(ex.name) = Lower(call.exercise_name))

NamedPartly ==
    SelectSeq(exercises, LAMBDA ex : Contains(Lower(call.exercise_name), Lower(ex.name)))

\* C27: for a non-empty catalog and an exercise_name that is a string,
\* get_exercise_by_name returns the first exercise whose name equals
\* exercise_name ignoring case if there is one, otherwise the first whose name
\* contains it, and the error envelope exactly when no name contains it.
ExactNameBeforePartial ==
    (Returned("get_exercise_by_name") /\ exercises # <<>> /\ IsStr(call.exercise_name))
        => /\ result.status = "error" <=> NamedPartly = <<>>
           /\ NamedExactly # <<>>
                  => /\ result.status = "success"
                     /\ result.data.exercise = NamedExactly[1]
           /\ (NamedExactly = <<>> /\ NamedPartly # <<>>)
                  => /\ result.status = "success"
                     /\ result.data.exercise = NamedPartly[1]

\* The exercise named exactly has been returned although an earlier exercise
\* of the catalog contains the name.
LaterExactMatchReturned ==
    /\ Succeeded("get_exercise_by_name")
    /\ NamedExactly # <<>>
    /\ NamedPartly[1] # NamedExactly[1]
    /\ result.data.exercise = NamedExactly[1]
====
